---- MODULE Spec2Model ----
(***************************************************************************)
(* Build governor: the token pool of Gov.Service (TokenPool.cs), driven by *)
(* the budget engine of Gov.Common (WindowsMemoryMetrics.cs) and by the    *)
(* connection handlers of PipeServer.cs.                                   *)
(*                                                                         *)
(* Time is in milliseconds.  Memory sizes are in whole GB.  Commit ratios  *)
(* are compared as integers (charge * 100 >= pct * limit).                 *)
(***************************************************************************)
EXTENDS Integers, FiniteSets, Sequences, TLC

(* ----------------------------- bounds ---------------------------------- *)
\* number of pipe connections served at the same time
NumConns == 2
\* number of distinct values Guid.NewGuid().ToString("N")[..12] can take
NumLeaseIds == 2
\* largest requestedTokens a client sends
MaxRequest == 2
\* number of requests the connections send in total
MaxCalls == 2
\* cap on _availableTokens
MaxAvailable == 4
\* number of request lines the clients write in total
MaxLines == 2
\* number of governor processes started
NumGovernors == 3
\* number of shim invocations
NumShims == 2

(* ------------------------ program constants ---------------------------- *)
LeaseTimeout == 1800000
LeaseWarningThreshold == 600000
DelayNormal == 100
DelayCaution == 200
DelaySoftStop == 500

GbPerToken == 2
SafetyReserveGb == 8
MinTokens == 1
MaxTokens == 32
CautionRatio == 80
SoftStopRatio == 88
HardStopRatio == 92
GbPerJob == 3

(* --------------------------- input sets -------------------------------- *)
Conns == 1..NumConns
Governors == 1..NumGovernors
Shims == 1..NumShims
LeaseIds == 1..NumLeaseIds
NoLease == 0
RequestedTokens == 0..MaxRequest
\* timeoutMs: none, or one that lasts to the end of the clock
Timeouts == {0, LeaseTimeout}
\* commit limit of the host and the commit charges the probe can observe
CommitLimitGb == 20
CommitCharges == {6, 18, 19}
\* the instants at which DateTime.UtcNow is read: the start of the pool, the
\* warning threshold after it and the lease timeout after it
ClockValues == {0, LeaseWarningThreshold, LeaseTimeout}

Max(a, b) == IF a >= b THEN a ELSE b
Min(a, b) == IF a <= b THEN a ELSE b
MaxClock == CHOOSE t \in ClockValues : \A u \in ClockValues : u <= t

(* ------------------- WindowsMemoryMetrics.cs --------------------------- *)
\* the snapshots GetMemoryStatus can return when GlobalMemoryStatusEx succeeds
MemoryStatus ==
    {[CommitLimitGb |-> CommitLimitGb, CommitChargeGb |-> c] : c \in CommitCharges}

\* a clamp without the upper bound
Clamp_NoUpper(v, lo, hi) == IF v < lo THEN lo ELSE v
Clamp(v, lo, hi) == IF v < lo THEN lo ELSE IF v > hi THEN hi ELSE v

\* status.CommitRatio >= pct / 100, the ratio of a commit limit of 0 being 0
\* (GetMemoryStatus, line 46)
RatioAtLeast(status, pct) ==
    IF status.CommitLimitGb > 0
    THEN status.CommitChargeGb * 100 >= pct * status.CommitLimitGb
    ELSE 0 >= pct

CalculateTokenBudget(status) ==
    LET availableCommitGb == status.CommitLimitGb - status.CommitChargeGb
        usableCommitGb == Max(0, availableCommitGb - SafetyReserveGb)
        totalTokens == Clamp(usableCommitGb \div GbPerToken, MinTokens, MaxTokens)
        throttle == IF RatioAtLeast(status, HardStopRatio) THEN "HardStop"
                    ELSE IF RatioAtLeast(status, SoftStopRatio) THEN "SoftStop"
                    ELSE IF RatioAtLeast(status, CautionRatio) THEN "Caution"
                    ELSE "Normal"
    IN  [TotalTokens |-> totalTokens,
         ThrottleLevel |-> throttle,
         RecommendedParallelism |-> Max(1, usableCommitGb \div GbPerJob)]

(* --------------------------- TokenPool.cs ------------------------------ *)
VARIABLES
    now,                \* DateTime.UtcNow
    totalTokens,        \* _totalTokens
    availableTokens,    \* _availableTokens
    lastMemoryStatus,   \* _lastMemoryStatus
    throttleLevel,      \* _throttleLevel
    expiredLeaseCount,  \* _expiredLeaseCount
    activeLeases,       \* _activeLeases: lease id -> Lease
    lockHolder,         \* _lock: 0 when free, else the task inside
    pc,                 \* per connection: position of its request handler
    call,               \* per connection: arguments and locals of the call
    result,             \* what the step just taken returned to its caller, if anything
    monPc,              \* position of MonitorLoopAsync
    calls,              \* number of requests received so far
    hostMemory,         \* the snapshots the host shows in this run: all, or one
    line,               \* per connection: the request line being served, if any
    received,           \* per connection: the number of request lines read so far
    sent,               \* per connection: the number of reply lines written so far
    closed,             \* the connections whose client end is closed or lost
    gov,                \* per governor process started: its position in Program.cs
    instanceMutex,      \* the processes holding a handle of Global\BuildGovernorInstance
    shim,               \* per shim started: its position in the wrapper and its locals
    startMutex,         \* Global\BuildGovernorMutex: its owner and whether it is abandoned
    calc,               \* a call of a pure function: its arguments and what it returned
    idle                \* MonitorIdleTimeout of Program.cs and what it observes

vars == <<now, totalTokens, availableTokens, lastMemoryStatus, throttleLevel,
          expiredLeaseCount, activeLeases, lockHolder, pc, call, result, monPc,
          calls, hostMemory, line, received, sent, closed, gov, instanceMutex,
          shim, startMutex, calc, idle>>

\* the connection loops of PipeServer.cs
pipeVars == <<line, received, sent, closed>>
\* the governor processes and shims of the host, and the pure function called
\* outside the service
hostVars == <<gov, instanceMutex, shim, startMutex, calc, idle>>
\* what the token pool never touches
otherVars == <<pipeVars, hostVars>>

poolVars == <<totalTokens, availableTokens, lastMemoryStatus, throttleLevel,
              expiredLeaseCount, activeLeases>>

LockFree == 0

NoCall == [op |-> "none", requestedTokens |-> 0, deadline |-> 0,
           wake |-> 0, leaseId |-> NoLease, tokens |-> 0, evaluations |-> 0]
\* what the handlers other than the running one leave alone
histVars == <<calls, hostMemory, otherVars>>
\* a TokenAcquireResult / TokenReleaseResult / exception, with the connection
\* it goes to and the arguments and locals of the call that returned it
\* no request line
NoLine == [json |-> FALSE, type |-> "none", data |-> "none",
           requestedTokens |-> 0, timeoutMs |-> 0, leaseId |-> NoLease]
NoStatus == [TotalTokens |-> 0, AvailableTokens |-> 0, ActiveLeases |-> 0]
NoResult == [kind |-> "none", conn |-> 0, Success |-> FALSE, LeaseId |-> NoLease,
             GrantedTokens |-> 0, Reason |-> "", Acknowledged |-> FALSE,
             alive |-> FALSE, status |-> NoStatus, call |-> NoCall,
             request |-> NoLine]
Return(c, r, locals) ==
    [r EXCEPT !.conn = c,
              !.call = [NoCall EXCEPT !.op = locals.op,
                                      !.requestedTokens = locals.requestedTokens,
                                      !.leaseId = locals.leaseId,
                                      !.evaluations = locals.evaluations]]

\* a recompute that forgets the tokens in use
RecalculateBudget_ForgetsUse(status, total, available) ==
    LET budget == CalculateTokenBudget(status)
    IN  [totalTokens |-> budget.TotalTokens,
         availableTokens |-> budget.TotalTokens,
         throttleLevel |-> budget.ThrottleLevel]

\* RecalculateBudget applied to a stored snapshot and the current counters
RecalculateBudget(status, total, available) ==
    LET budget == CalculateTokenBudget(status)
        usedTokens == total - available
    IN  [totalTokens |-> budget.TotalTokens,
         availableTokens |-> Max(0, budget.TotalTokens - usedTokens),
         throttleLevel |-> budget.ThrottleLevel]

\* sum of Tokens over the leases of a table
RECURSIVE SumTokens(_, _)
SumTokens(leases, ids) ==
    IF ids = {} THEN 0
    ELSE LET id == CHOOSE i \in ids : TRUE
         IN  leases[id].Tokens + SumTokens(leases, ids \ {id})
LeasedTokens == SumTokens(activeLeases, DOMAIN activeLeases)

\* the lease ids some part of the state refers to; the other ids are
\* interchangeable, so the least of them stands for all of them
IdsInUse ==
    (DOMAIN activeLeases \cup {call[c].leaseId : c \in Conns}
        \cup {result.LeaseId, result.call.leaseId}) \ {NoLease}
CandidateIds ==
    LET fresh == LeaseIds \ IdsInUse
    IN  IdsInUse \cup {id \in fresh : \A other \in fresh : id <= other}

\* connections are interchangeable: a request arrives on the first idle one
AcceptsRequest(c) ==
    /\ pc[c] = "idle"
    /\ \A d \in Conns : d < c => pc[d] # "idle"

\* the table without one key / with one key set (indexer assignment overwrites)
RemoveLease(leases, id) == [k \in (DOMAIN leases) \ {id} |-> leases[k]]
SetLease(leases, id, lease) ==
    [k \in (DOMAIN leases) \cup {id} |-> IF k = id THEN lease ELSE leases[k]]

\* a governor process at the start of Main
NoProcess == [pc |-> "main", createdNew |-> FALSE, pool |-> FALSE,
              accepted |-> FALSE, exit |-> "none"]

\* a null string and a null int
NullString == "<null>"
NullInt == -1
\* exit codes: none yet, the wrapper's "cannot find real cl.exe", a process
\* ended by an unhandled .NET exception, and those of the real tool
NoExit == -1
ToolNotFound == 1
UnhandledExit == -532462766
ChildExitCodes == {0, 2}

\* JSON values
JString(x) == [kind |-> "string", str |-> x, num |-> 0, bool |-> FALSE]
JNumber(n) == [kind |-> "number", str |-> "", num |-> n, bool |-> FALSE]
JBool(b) == [kind |-> "bool", str |-> "", num |-> 0, bool |-> b]
JNull == [kind |-> "null", str |-> "", num |-> 0, bool |-> FALSE]
\* the data object of a line that has none
NoData == [acknowledged |-> JNull, classification |-> JNull, message |-> JNull,
           shouldRetry |-> JNull, retryWithTokens |-> JNull, granted |-> JNull,
           leaseId |-> JNull]

\* no line at all (end of stream, read timeout, broken pipe)
NoReply == [type |-> "none", data |-> NoData]

\* a shim invocation at the start of its top-level statements
NoShim == [pc |-> "start", located |-> FALSE, connected |-> FALSE,
           leaseId |-> NullString, runs |-> 0, childExit |-> 0,
           reply |-> NoReply, printed |-> FALSE, exit |-> NoExit]

\* the start mutex, owned by nobody
FreeMutex == [owner |-> 0, abandoned |-> FALSE]

\* no pure function is being called
NoCalc == <<>>
\* the idle timeout is not looked at
NoIdle == <<>>

\* the constructor: first snapshot, RecalculateBudget from zeroed counters; the
\* pipe server has read and written nothing
PoolInit ==
    /\ now = 0
    /\ hostMemory \in {MemoryStatus} \cup {{s} : s \in MemoryStatus}
    /\ lastMemoryStatus \in hostMemory
    /\ LET b == RecalculateBudget(lastMemoryStatus, 0, 0)
       IN  /\ totalTokens = b.totalTokens
           /\ availableTokens = b.availableTokens
           /\ throttleLevel = b.throttleLevel
    /\ expiredLeaseCount = 0
    /\ activeLeases = << >>
    /\ lockHolder = LockFree
    /\ pc = [c \in Conns |-> "idle"]
    /\ call = [c \in Conns |-> NoCall]
    /\ result = NoResult
    /\ monPc = "running"
    /\ calls = 0
    /\ line = [c \in Conns |-> NoLine]
    /\ received = [c \in Conns |-> 0]
    /\ sent = [c \in Conns |-> 0]
    /\ closed = {}
    /\ gov = <<>>
    /\ instanceMutex = {}
    /\ shim = <<>>
    /\ startMutex = FreeMutex

Init == PoolInit /\ calc = NoCalc /\ idle = NoIdle

\* the clock moves on; the last clock value stands for every later instant.
\* The locked sections never wait, so no clock instant passes inside one
Tick ==
    /\ lockHolder = LockFree
    /\ \E t \in ClockValues : t > now /\ now' = t
    /\ result' = NoResult
    /\ UNCHANGED <<poolVars, lockHolder, pc, call, monPc, histVars>>


(* ----------------------- TryAcquireAsync ------------------------------- *)
\* the clock only shows the instants of ClockValues, so an instant d compares
\* with every clock reading as the first clock instant at or after d does
ClockCeil(d) == CHOOSE t \in ClockValues : t >= d /\ \A u \in ClockValues : u >= d => t <= u

\* a timeout denial that still reports a granted token
TimeoutDenial_WithGrant ==
    [NoResult EXCEPT !.kind = "acquire", !.Reason = "Timeout", !.GrantedTokens = 1]

\* lines 121-126
TimeoutDenial == [NoResult EXCEPT !.kind = "acquire", !.Reason = "Timeout"]

\* line 57, while (UtcNow < deadline)
LoopCondition(t, deadline) == t < deadline

\* PipeServer.HandleAcquireAsync calls TryAcquireAsync (no cancellation token):
\* line 55, deadline = UtcNow + timeoutMs; line 57, the first loop test;
\* lines 121-126 when the loop is not entered
BeginAcquire(c, r, t) ==
    /\ pc[c] = "idle"
    /\ calls < MaxCalls
    /\ calls' = calls + 1
    /\ LET locals == [NoCall EXCEPT !.op = "acquire", !.requestedTokens = r,
                                    !.deadline = ClockCeil(now + t)]
       IN  /\ now + t <= MaxClock
           /\ IF LoopCondition(now, now + t)
                THEN /\ pc' = [pc EXCEPT ![c] = "acqWaitLock"]
                     /\ call' = [call EXCEPT ![c] = locals]
                     /\ result' = NoResult
                ELSE /\ result' = Return(c, TimeoutDenial, locals)
                     /\ UNCHANGED <<pc, call>>
    /\ UNCHANGED <<now, poolVars, lockHolder, monPc, hostMemory>>

\* a TryAcquireAsync call with any arguments
StartAcquire(c) ==
    /\ AcceptsRequest(c)
    /\ \E r \in RequestedTokens, t \in Timeouts : BeginAcquire(c, r, t)
    /\ UNCHANGED otherVars

\* WindowsMemoryMetrics.cs:37-40, the InvalidOperationException of a failed probe
ProbeException == [NoResult EXCEPT !.kind = "exception"]

\* lines 59-63 and 105-108, GetMemoryStatus throws (WindowsMemoryMetrics.cs:37-40):
\* the finally block frees the lock and the exception leaves TryAcquireAsync
AcqProbeFails(c) ==
    /\ pc[c] = "acqWaitLock"
    /\ lockHolder = LockFree
    /\ result' = Return(c, ProbeException, call[c])
    /\ pc' = [pc EXCEPT ![c] = "idle"]
    /\ call' = [call EXCEPT ![c] = NoCall]
    /\ UNCHANGED <<now, poolVars, lockHolder, monPc, histVars>>

\* lines 67-75, the hard-stop denial
HardStopDenial == [NoResult EXCEPT !.kind = "acquire", !.Reason = "HardStop"]

\* a throttle test that lets HardStop through
IsHardStop_Never(level) == FALSE

\* line 67
IsHardStop(level) == level = "HardStop"

\* a grant that is not limited by the available tokens
GrantedTokens_Unclamped(requestedTokens, available) == requestedTokens

\* line 78
GrantedTokens(requestedTokens, available) == Min(requestedTokens, available)

\* line 79
GrantCondition(requestedTokens, grantedTokens) ==
    grantedTokens > 0 \/ requestedTokens = 0

\* line 81, the values Guid.NewGuid().ToString("N")[..12] can return: an id
\* that is in use already, or an unused one
NewLeaseIds == CandidateIds

\* lines 82-90
NewLease(leaseId, grantedTokens) ==
    [LeaseId |-> leaseId, Tokens |-> grantedTokens, AcquiredAt |-> now,
     ExpiresAt |-> now + LeaseTimeout, WarningLogged |-> FALSE]

\* lines 111-116
RetryDelay(level) ==
    IF level = "SoftStop" THEN DelaySoftStop
    ELSE IF level = "Caution" THEN DelayCaution
    ELSE DelayNormal

\* lines 59-92 and 105-118: the lock is taken, the probe succeeds, the
\* snapshot is stored, RecalculateBudget; then hard stop (return through
\* finally), or grant and insert the lease, or neither (leave the locked block
\* through finally and start the retry delay)
AcqLock(c) ==
    /\ pc[c] = "acqWaitLock"
    /\ lockHolder = LockFree
    /\ \E s \in hostMemory :
        LET b == RecalculateBudget(s, totalTokens, availableTokens)
            requestedTokens == call[c].requestedTokens
            grantedTokens == GrantedTokens(requestedTokens, b.availableTokens)
        IN  /\ b.availableTokens <= MaxAvailable
            /\ lastMemoryStatus' = s
            /\ totalTokens' = b.totalTokens
            /\ availableTokens' = b.availableTokens
            /\ throttleLevel' = b.throttleLevel
            /\ IF IsHardStop(b.throttleLevel)
                 THEN /\ result' = Return(c, HardStopDenial,
                                           [call[c] EXCEPT !.evaluations = 1])
                      /\ pc' = [pc EXCEPT ![c] = "idle"]
                      /\ call' = [call EXCEPT ![c] = NoCall]
                      /\ UNCHANGED <<activeLeases, lockHolder>>
                 ELSE IF GrantCondition(requestedTokens, grantedTokens)
                   THEN /\ \E leaseId \in NewLeaseIds :
                             /\ activeLeases' = SetLease(activeLeases, leaseId,
                                                    NewLease(leaseId, grantedTokens))
                             /\ call' = [call EXCEPT ![c].leaseId = leaseId,
                                                     ![c].tokens = grantedTokens,
                                                     ![c].evaluations = 1]
                        /\ pc' = [pc EXCEPT ![c] = "acqDecrement"]
                        /\ lockHolder' = c
                        /\ result' = NoResult
                   ELSE /\ pc' = [pc EXCEPT ![c] = "acqDelay"]
                        /\ call' = [call EXCEPT
                                      ![c].evaluations = 1,
                                      ![c].wake = ClockCeil(Min(MaxClock,
                                                    now + RetryDelay(b.throttleLevel)))]
                        /\ result' = NoResult
                        /\ UNCHANGED <<activeLeases, lockHolder>>
    /\ UNCHANGED <<now, expiredLeaseCount, monPc, histVars>>

\* lines 95-102
GrantResult(leaseId, grantedTokens) ==
    [NoResult EXCEPT !.kind = "acquire", !.Success = TRUE, !.LeaseId = leaseId,
                     !.GrantedTokens = grantedTokens]

\* lines 93-108, the counter is decremented, the grant returned through finally
AcqDecrement(c) ==
    /\ pc[c] = "acqDecrement"
    /\ availableTokens' = availableTokens - call[c].tokens
    /\ result' = Return(c, GrantResult(call[c].leaseId, call[c].tokens), call[c])
    /\ pc' = [pc EXCEPT ![c] = "idle"]
    /\ call' = [call EXCEPT ![c] = NoCall]
    /\ lockHolder' = LockFree
    /\ UNCHANGED <<now, totalTokens, lastMemoryStatus, throttleLevel, expiredLeaseCount,
                   activeLeases, monPc, histVars>>

\* line 118, Task.Delay completes (the last clock value stands for every later
\* instant); line 57, the loop test; lines 121-126 when the loop is left
AcqWake(c) ==
    /\ pc[c] = "acqDelay"
    /\ now >= call[c].wake
    /\ IF LoopCondition(now, call[c].deadline)
         THEN /\ pc' = [pc EXCEPT ![c] = "acqWaitLock"]
              /\ call' = [call EXCEPT ![c].wake = 0]
              /\ result' = NoResult
         ELSE /\ pc' = [pc EXCEPT ![c] = "idle"]
              /\ call' = [call EXCEPT ![c] = NoCall]
              /\ result' = Return(c, TimeoutDenial, [call[c] EXCEPT !.wake = 0])
    /\ UNCHANGED <<now, poolVars, lockHolder, monPc, histVars>>

(* --------------------------- ReleaseAsync ------------------------------ *)
\* PipeServer.HandleReleaseAsync calls ReleaseAsync with the id the client sent
BeginRelease(c, id) ==
    /\ pc[c] = "idle"
    /\ calls < MaxCalls
    /\ calls' = calls + 1
    /\ call' = [call EXCEPT ![c] = [NoCall EXCEPT !.op = "release", !.leaseId = id]]
    /\ pc' = [pc EXCEPT ![c] = "relWaitLock"]
    /\ result' = NoResult
    /\ UNCHANGED <<now, poolVars, lockHolder, monPc, hostMemory>>

\* a ReleaseAsync call with any lease id
StartRelease(c) ==
    /\ AcceptsRequest(c)
    /\ \E id \in CandidateIds : BeginRelease(c, id)
    /\ UNCHANGED otherVars

\* an unknown lease id that is acknowledged
UnknownLease_Acknowledged ==
    [NoResult EXCEPT !.kind = "release", !.Acknowledged = TRUE]

\* line 145
UnknownLease == [NoResult EXCEPT !.kind = "release"]

\* lines 140-146 and 178-181, the lock is taken and TryRemove runs; an unknown
\* id returns through finally
RelLock(c) ==
    /\ pc[c] = "relWaitLock"
    /\ lockHolder = LockFree
    /\ LET id == call[c].leaseId
       IN  IF id \in DOMAIN activeLeases
             THEN /\ activeLeases' = RemoveLease(activeLeases, id)
                  /\ call' = [call EXCEPT ![c].tokens = activeLeases[id].Tokens]
                  /\ pc' = [pc EXCEPT ![c] = "relAdd"]
                  /\ lockHolder' = c
                  /\ result' = NoResult
             ELSE /\ result' = Return(c, UnknownLease, call[c])
                  /\ pc' = [pc EXCEPT ![c] = "idle"]
                  /\ call' = [call EXCEPT ![c] = NoCall]
                  /\ UNCHANGED <<activeLeases, lockHolder>>
    /\ UNCHANGED <<now, totalTokens, availableTokens, lastMemoryStatus, throttleLevel,
                   expiredLeaseCount, monPc, histVars>>

\* lines 169-176
ReleaseResult == [NoResult EXCEPT !.kind = "release", !.Acknowledged = TRUE]

\* lines 148-181, the tokens are returned, the probe succeeds: the snapshot is
\* stored (no RecalculateBudget), the result returned through finally
RelAdd(c) ==
    /\ pc[c] = "relAdd"
    /\ availableTokens + call[c].tokens <= MaxAvailable
    /\ availableTokens' = availableTokens + call[c].tokens
    /\ \E s \in hostMemory : lastMemoryStatus' = s
    /\ result' = Return(c, ReleaseResult, call[c])
    /\ pc' = [pc EXCEPT ![c] = "idle"]
    /\ call' = [call EXCEPT ![c] = NoCall]
    /\ lockHolder' = LockFree
    /\ UNCHANGED <<now, totalTokens, throttleLevel, expiredLeaseCount, activeLeases,
                   monPc, histVars>>

\* lines 148-151 and 178-181, the tokens are returned, then GetMemoryStatus
\* throws and the exception leaves ReleaseAsync through finally
RelProbeFails(c) ==
    /\ pc[c] = "relAdd"
    /\ availableTokens + call[c].tokens <= MaxAvailable
    /\ availableTokens' = availableTokens + call[c].tokens
    /\ result' = Return(c, ProbeException, call[c])
    /\ pc' = [pc EXCEPT ![c] = "idle"]
    /\ call' = [call EXCEPT ![c] = NoCall]
    /\ lockHolder' = LockFree
    /\ UNCHANGED <<now, totalTokens, lastMemoryStatus, throttleLevel, expiredLeaseCount,
                   activeLeases, monPc, histVars>>

(* ------------------------- MonitorLoopAsync ---------------------------- *)
\* a sweep that leaves a lease alone at the very instant it expires
ExpiredIds_Strict(leases, t) == {id \in DOMAIN leases : t > leases[id].ExpiresAt}

\* lines 237-247
ExpiredIds(leases, t) == {id \in DOMAIN leases : t >= leases[id].ExpiresAt}
\* a sweep that warns about a lease of any age
WarningIds_AnyAge(leases, t) ==
    {id \in DOMAIN leases :
        /\ ~(t >= leases[id].ExpiresAt)
        /\ t >= leases[id].AcquiredAt
        /\ ~leases[id].WarningLogged}

WarningIds(leases, t) ==
    {id \in DOMAIN leases :
        /\ ~(t >= leases[id].ExpiresAt)
        /\ t >= leases[id].AcquiredAt + LeaseWarningThreshold
        /\ ~leases[id].WarningLogged}

\* a sweep that counts itself, not the leases it reclaims
CheckExpiredLeases_CountsSweeps(leases, available, expiredCount, t) ==
    LET expiredIds == ExpiredIds(leases, t)
        warningIds == WarningIds(leases, t)
    IN  [activeLeases |->
            [id \in (DOMAIN leases) \ expiredIds |->
                IF id \in warningIds
                  THEN [leases[id] EXCEPT !.WarningLogged = TRUE]
                  ELSE leases[id]],
         availableTokens |-> available + SumTokens(leases, expiredIds),
         expiredLeaseCount |-> expiredCount + (IF expiredIds = {} THEN 0 ELSE 1)]

\* lines 231-267, CheckExpiredLeases at time t on a table and a counter pair
CheckExpiredLeases(leases, available, expiredCount, t) ==
    LET expiredIds == ExpiredIds(leases, t)
        warningIds == WarningIds(leases, t)
    IN  [activeLeases |->
            [id \in (DOMAIN leases) \ expiredIds |->
                IF id \in warningIds
                  THEN [leases[id] EXCEPT !.WarningLogged = TRUE]
                  ELSE leases[id]],
         availableTokens |-> available + SumTokens(leases, expiredIds),
         expiredLeaseCount |-> expiredCount + Cardinality(expiredIds)]

\* lines 275-287, one timer tick: the lock is taken, the probe succeeds, the
\* snapshot is stored, RecalculateBudget, CheckExpiredLeases, the lock is freed
MonitorTick ==
    /\ monPc = "running"
    /\ lockHolder = LockFree
    /\ \E s \in hostMemory :
          LET b == RecalculateBudget(s, totalTokens, availableTokens)
              swept == CheckExpiredLeases(activeLeases, b.availableTokens,
                                          expiredLeaseCount, now)
          IN  /\ swept.availableTokens <= MaxAvailable
              /\ lastMemoryStatus' = s
              /\ totalTokens' = b.totalTokens
              /\ throttleLevel' = b.throttleLevel
              /\ activeLeases' = swept.activeLeases
              /\ availableTokens' = swept.availableTokens
              /\ expiredLeaseCount' = swept.expiredLeaseCount
    /\ result' = NoResult
    /\ UNCHANGED <<now, lockHolder, pc, call, monPc, histVars>>

\* lines 277-292, a timer tick whose probe fails: the lock is taken,
\* GetMemoryStatus throws (WindowsMemoryMetrics.cs:37-40), finally frees the
\* lock; the exception is no OperationCanceledException, so it leaves the loop
\* and ends the task the constructor started and dropped (line 36)
MonProbeFails ==
    /\ monPc = "running"
    /\ lockHolder = LockFree
    /\ monPc' = "dead"
    /\ result' = NoResult
    /\ UNCHANGED <<now, poolVars, lockHolder, pc, call, histVars>>

(* ---------------------------- PipeServer.cs ---------------------------- *)
\* the request lines a client can write: text that is no JSON, JSON without
\* "type", an unknown type, and for each known type a line whose "data" lacks
\* required members (Messages.cs:6-15, 33-42, 71-74) and the well-formed lines
RequestLines ==
    {[NoLine EXCEPT !.type = "text"]}
    \cup {[NoLine EXCEPT !.json = TRUE, !.type = "missing"]}
    \cup {[NoLine EXCEPT !.json = TRUE, !.type = "bogus", !.data = d] : d \in {"ok", "bad"}}
    \cup {[NoLine EXCEPT !.json = TRUE, !.type = t, !.data = "bad"] :
             t \in {"acquire", "release", "heartbeat"}}
    \cup {[NoLine EXCEPT !.json = TRUE, !.type = "acquire", !.data = "ok",
                         !.requestedTokens = r, !.timeoutMs = t] :
             r \in RequestedTokens, t \in Timeouts}
    \cup {[NoLine EXCEPT !.json = TRUE, !.type = t, !.data = "ok", !.leaseId = id] :
             t \in {"release", "heartbeat"}, id \in CandidateIds}
    \cup {[NoLine EXCEPT !.json = TRUE, !.type = "status", !.data = "ok"]}

\* lines 98-118 with 122 and 154: the handler a line is given to, or "error"
\* when JsonDocument.Parse, GetProperty("type") or Deserialize (required
\* members) throws into the catch of line 114, or the type is not known
ProcessMessage(l) ==
    IF ~l.json THEN "error"
    ELSE IF l.type = "missing" THEN "error"
    ELSE IF l.type \in {"acquire", "release"}
           THEN IF l.data = "ok" THEN l.type ELSE "error"
    ELSE IF l.type \in {"status", "heartbeat"} THEN l.type
    ELSE "error"

\* lines 111 and 116, the error object
ErrorReply == [NoResult EXCEPT !.kind = "error"]

\* lines 180-197 with TokenPool.cs:187-213, GetStatus takes no lock
HandleStatus ==
    [NoResult EXCEPT !.kind = "status",
                     !.status = [TotalTokens |-> totalTokens,
                                 AvailableTokens |-> availableTokens,
                                 ActiveLeases |-> Cardinality(DOMAIN activeLeases)]]

\* lines 199-202, the handler is given no part of the request
HandleHeartbeat == [NoResult EXCEPT !.kind = "heartbeat", !.alive = TRUE]

\* lines 116, 149, 177, 196, 201: the reply line serialised from what the
\* handler returned or threw
ReplyLine(r) ==
    IF r.kind = "acquire"
      THEN [type |-> "acquire_response", granted |-> r.Success, leaseId |-> r.LeaseId,
            grantedTokens |-> r.GrantedTokens]
    ELSE IF r.kind = "release"
      THEN [type |-> "release_response", acknowledged |-> r.Acknowledged]
    ELSE IF r.kind = "status"
      THEN [type |-> "status_response", status |-> r.status]
    ELSE IF r.kind = "heartbeat"
      THEN [type |-> "heartbeat_response", alive |-> r.alive]
    ELSE [type |-> "error"]

\* a handler has returned a reply that is not written yet
ReplyPending == result.conn # 0 /\ line[result.conn] # NoLine
Quiet == ~ReplyPending

\* a loop that reads on while a handler is at work
ReadsNext_Pipelined(c) == TRUE

\* lines 79-85: the loop is at ReadLineAsync only after the previous reply
\* has been written
ReadsNext(c) == pc[c] = "idle" /\ line[c] = NoLine

\* the number of lines read on the connections of a set
RECURSIVE LinesRead(_)
LinesRead(cs) ==
    IF cs = {} THEN 0
    ELSE LET c == CHOOSE d \in cs : TRUE
         IN  received[c] + LinesRead(cs \ {c})

\* line 81, ReadLineAsync returns the next line the client wrote
Receive(c, l) ==
    /\ Quiet
    /\ ReadsNext(c)
    /\ c \notin closed
    /\ LinesRead(Conns) < MaxLines
    /\ received' = [received EXCEPT ![c] = @ + 1]
    /\ UNCHANGED closed

\* lines 84-85 for a handler that returns without waiting: the reply is
\* written at once and the loop is back at line 79
Answer(c, l, r) ==
    /\ result' = [Return(c, r, [NoCall EXCEPT !.op = l.type, !.leaseId = l.leaseId])
                     EXCEPT !.request = l]
    /\ line' = [line EXCEPT ![c] = NoLine]
    /\ sent' = [sent EXCEPT ![c] = @ + 1]
    /\ UNCHANGED <<now, poolVars, lockHolder, pc, call, monPc, calls, hostMemory,
                   hostVars>>

\* lines 81-85 and 98-117: a line that ProcessMessageAsync answers with the
\* error object
ReceiveBad(c) ==
    \E l \in RequestLines :
        /\ ProcessMessage(l) = "error"
        /\ Receive(c, l)
        /\ Answer(c, l, ErrorReply)

\* lines 81-84, 107 and 120-128: TryAcquireAsync is called
ReceiveAcquire(c) ==
    \E l \in RequestLines :
        /\ ProcessMessage(l) = "acquire"
        /\ Receive(c, l)
        /\ BeginAcquire(c, l.requestedTokens, l.timeoutMs)
        /\ line' = [line EXCEPT ![c] = l]
        /\ UNCHANGED <<sent, hostVars>>

\* lines 81-84, 108 and 152-163: ReleaseAsync is called
ReceiveRelease(c) ==
    \E l \in RequestLines :
        /\ ProcessMessage(l) = "release"
        /\ Receive(c, l)
        /\ BeginRelease(c, l.leaseId)
        /\ line' = [line EXCEPT ![c] = l]
        /\ UNCHANGED <<sent, hostVars>>

\* lines 81-85 and 109
ReceiveStatus(c) ==
    \E l \in RequestLines :
        /\ ProcessMessage(l) = "status"
        /\ Receive(c, l)
        /\ Answer(c, l, HandleStatus)

\* lines 81-85 and 110
ReceiveHeartbeat(c) ==
    \E l \in RequestLines :
        /\ ProcessMessage(l) = "heartbeat"
        /\ Receive(c, l)
        /\ Answer(c, l, HandleHeartbeat)

\* line 85, WriteLineAsync writes the reply of TryAcquireAsync or ReleaseAsync
\* and the loop goes back to line 79; on a pipe whose client is gone the write
\* throws, the reply is lost and the loop ends (lines 88-95)
PipeWrite(c) ==
    /\ ReplyPending
    /\ result.conn = c
    /\ sent' = IF c \in closed THEN sent ELSE [sent EXCEPT ![c] = @ + 1]
    /\ line' = [line EXCEPT ![c] = NoLine]
    /\ result' = [result EXCEPT !.request = line[c]]
    /\ UNCHANGED <<now, poolVars, lockHolder, pc, call, monPc, calls, hostMemory,
                   received, closed, hostVars>>

\* the pool behind the pipe: each connection runs the loop of
\* HandleConnectionAsync (the clients keep their ends open); what a handler
\* returns is written before anything else happens (the write touches nothing
\* but its own pipe)
PipeNext ==
    \/ \E c \in Conns :
          \/ ReceiveBad(c) \/ ReceiveAcquire(c) \/ ReceiveRelease(c)
          \/ ReceiveStatus(c) \/ ReceiveHeartbeat(c)
          \/ PipeWrite(c)
    \/ Quiet /\ Tick
    \/ Quiet /\ MonitorTick
    \/ \E c \in Conns :
          \/ Quiet /\ AcqLock(c)
          \/ Quiet /\ AcqProbeFails(c)
          \/ Quiet /\ AcqDecrement(c)
          \/ Quiet /\ AcqWake(c)
          \/ Quiet /\ RelLock(c)
          \/ Quiet /\ RelAdd(c)
          \/ Quiet /\ RelProbeFails(c)

\* the host can show any snapshot at any probe
PipeInit == Init /\ hostMemory = MemoryStatus

PipeSpec == PipeInit /\ [][PipeNext]_vars

\* a connection whose end gives the tokens of all leases back
PipeClose_Releasing(c) ==
    /\ c \notin closed
    /\ closed' = closed \cup {c}
    /\ activeLeases' = << >>
    /\ availableTokens' = totalTokens
    /\ UNCHANGED <<now, totalTokens, lastMemoryStatus, throttleLevel, expiredLeaseCount,
                   lockHolder, pc, call, result, monPc, calls, hostMemory, line,
                   received, sent, hostVars>>

\* lines 79-82 and 92-95: the client closes its end or dies; ReadLineAsync
\* returns null (or the pending write throws), the loop ends and the pipe is
\* disposed.  A handler at work goes on: TryAcquireAsync and ReleaseAsync are
\* given no token of the connection (lines 125-128, 157-163)
PipeClose(c) ==
    /\ c \notin closed
    /\ closed' = closed \cup {c}
    /\ UNCHANGED <<now, poolVars, lockHolder, pc, call, result, monPc, calls,
                   hostMemory, line, received, sent, hostVars>>

\* the connection loops with clients that may go away at any moment
CloseNext == PipeNext \/ \E c \in Conns : PipeClose(c)

\* the host shows one snapshot throughout
CloseInit == Init /\ Cardinality(hostMemory) = 1

CloseSpec == CloseInit /\ [][CloseNext]_vars

(* ------------------------ Gov.Service/Program.cs ----------------------- *)
\* the token pool and the pipe server of the one governor modelled above
serviceVars == <<now, poolVars, lockHolder, pc, call, result, monPc, calls,
                 hostMemory, pipeVars, calc, idle>>

\* the shim invocations and the start mutex
shimVars == <<shim, startMutex>>

\* the processes that run (started and not ended)
Running == {g \in DOMAIN gov : gov[g].pc # "exit"}
\* the processes that are past the check of line 13
PastCheck == {g \in DOMAIN gov : gov[g].pc \in {"owner", "pool", "serving", "stopped"}}
\* the processes whose pipe server listens on BuildGovernor
Serving == {g \in DOMAIN gov : gov[g].pc = "serving"}

\* a constructor that always reports a new mutex
CreatedNew_Always(handles) == TRUE

\* line 11, new Mutex(true, name, out createdNew): the named mutex is created
\* iff no process holds a handle of it
CreatedNew(handles) == handles = {}

\* a governor process is started (by a user, a script or a shim)
GovStart(g) ==
    /\ g = Len(gov) + 1
    /\ gov' = Append(gov, NoProcess)
    /\ UNCHANGED <<serviceVars, instanceMutex, shimVars>>

\* lines 11-13: the mutex is created or opened; the process keeps the handle
GovCheckMutex(g) ==
    /\ gov[g].pc = "main"
    /\ instanceMutex' = instanceMutex \cup {g}
    /\ gov' = [gov EXCEPT ![g].createdNew = CreatedNew(instanceMutex),
                          ![g].pc = IF CreatedNew(instanceMutex) THEN "owner"
                                    ELSE "refused"]
    /\ UNCHANGED <<serviceVars, shimVars>>

\* lines 19 and 106: Main returns 0; the using declaration of line 11 closes
\* the handle
GovExit(g) ==
    /\ gov[g].pc \in {"refused", "stopped"}
    /\ gov' = [gov EXCEPT ![g].pc = "exit", ![g].exit = "0"]
    /\ instanceMutex' = instanceMutex \ {g}
    /\ UNCHANGED <<serviceVars, shimVars>>

\* lines 31-71: the first probe, then new TokenPool(config)
GovCreatePool(g) ==
    /\ gov[g].pc = "owner"
    /\ gov' = [gov EXCEPT ![g].pc = "pool", ![g].pool = TRUE]
    /\ UNCHANGED <<serviceVars, instanceMutex, shimVars>>

\* lines 101-102 with PipeServer.cs:41-52: RunAsync creates the pipe and waits
\* for a connection
GovListen(g) ==
    /\ gov[g].pc = "pool"
    /\ gov' = [gov EXCEPT ![g].pc = "serving"]
    /\ UNCHANGED <<serviceVars, instanceMutex, shimVars>>

\* PipeServer.cs:52-59: a client connects, its loop is started
GovAccept(g) ==
    /\ gov[g].pc = "serving"
    /\ ~gov[g].accepted
    /\ gov' = [gov EXCEPT ![g].accepted = TRUE]
    /\ UNCHANGED <<serviceVars, instanceMutex, shimVars>>

\* lines 85-90 and 109-131: Ctrl+C or the idle timeout cancels the token,
\* RunAsync returns (PipeServer.cs:61-64)
GovShutdown(g) ==
    /\ gov[g].pc = "serving"
    /\ gov' = [gov EXCEPT ![g].pc = "stopped"]
    /\ UNCHANGED <<serviceVars, instanceMutex, shimVars>>

\* the process dies (an unhandled exception such as the failed probe of line
\* 31, or it is killed); the system closes its handles
GovCrash(g) ==
    /\ gov[g].pc \in {"main", "refused", "owner", "pool", "serving", "stopped"}
    /\ gov' = [gov EXCEPT ![g].pc = "exit", ![g].exit = "crash"]
    /\ instanceMutex' = instanceMutex \ {g}
    /\ UNCHANGED <<serviceVars, shimVars>>

\* a step of governor process g after its start
GovStep(g) ==
    \/ GovCheckMutex(g) \/ GovExit(g) \/ GovCreatePool(g) \/ GovListen(g)
    \/ GovAccept(g) \/ GovShutdown(g) \/ GovCrash(g)

\* a host on which governor processes are started at any time
HostInit ==
    /\ Init
    /\ hostMemory = MemoryStatus
    /\ \A s \in hostMemory : lastMemoryStatus.CommitChargeGb <= s.CommitChargeGb

InstanceNext ==
    \/ \E g \in Governors : GovStart(g)
    \/ \E g \in DOMAIN gov : GovStep(g)

InstanceSpec == HostInit /\ [][InstanceNext]_vars

(* ------------- Gov.Wrapper.CL, GovernorClient, GovernorAutoStart --------- *)
\* the members of the enum FailureClassification, in declaration order
FailureClassification ==
    <<"Success", "NormalCompileError", "LikelyOOM", "LikelyPagingDeath", "Unknown">>
\* the underlying value of an enum member
EnumValue(c) ==
    (CHOOSE i \in DOMAIN FailureClassification : FailureClassification[i] = c) - 1

JStringOrNull(x) == IF x = NullString THEN JNull ELSE JString(x)
JNumberOrNull(n) == IF n = NullInt THEN JNull ELSE JNumber(n)

\* JsonSerializer.Serialize of an enum value under Json.Options, which holds no
\* JsonStringEnumConverter: the underlying number
SerializeEnum(c) == JNumber(EnumValue(c))

\* the results TokenPool.ReleaseAsync returns for a lease id and an exit code:
\* the lease is not in the table (never one for the id "" of a denial), or
\* FailureClassifier.Classify has classified the exit
TokenReleaseResults(leaseId, exitCode) ==
    {[Acknowledged |-> FALSE, Classification |-> "Success", Message |-> NullString,
      ShouldRetry |-> FALSE, RetryWithTokens |-> NullInt]}
    \cup (IF leaseId = "" THEN {}
          ELSE IF exitCode = 0
          THEN {[Acknowledged |-> TRUE, Classification |-> "Success",
                 Message |-> NullString, ShouldRetry |-> FALSE,
                 RetryWithTokens |-> NullInt]}
          ELSE {[Acknowledged |-> TRUE, Classification |-> "LikelyOOM",
                 Message |-> "oom", ShouldRetry |-> TRUE, RetryWithTokens |-> 1],
                [Acknowledged |-> TRUE, Classification |-> "LikelyPagingDeath",
                 Message |-> "paging", ShouldRetry |-> TRUE, RetryWithTokens |-> 1],
                [Acknowledged |-> TRUE, Classification |-> "NormalCompileError",
                 Message |-> NullString, ShouldRetry |-> FALSE,
                 RetryWithTokens |-> NullInt],
                [Acknowledged |-> TRUE, Classification |-> "Unknown",
                 Message |-> "unknown cause", ShouldRetry |-> FALSE,
                 RetryWithTokens |-> NullInt]})

\* PipeServer.HandleReleaseAsync: the release_response line
ReleaseResponseLine(r) ==
    [type |-> "release_response",
     data |-> [NoData EXCEPT !.acknowledged = JBool(r.Acknowledged),
                             !.classification = SerializeEnum(r.Classification),
                             !.message = JStringOrNull(r.Message),
                             !.shouldRetry = JBool(r.ShouldRetry),
                             !.retryWithTokens = JNumberOrNull(r.RetryWithTokens)]]

\* PipeServer.HandleAcquireAsync: the acquire_response line; LeaseId is
\* result.LeaseId ?? ""
AcquireResponseLine(success) ==
    [type |-> "acquire_response",
     data |-> [NoData EXCEPT !.granted = JBool(success),
                             !.leaseId = JString(IF success THEN "lease" ELSE "")]]

\* the error object of ProcessMessageAsync, which has no data property
ErrorLine == [type |-> "error", data |-> NoData]

\* JsonElement.GetString, GetBoolean and GetInt32 throw InvalidOperationException
\* on a value of another kind
GetStringThrows(v) == v.kind \notin {"string", "null"}
GetBooleanThrows(v) == v.kind # "bool"
GetInt32Throws(v) == v.kind # "number"
GetString(v) == IF v.kind = "null" THEN NullString ELSE v.str

\* Enum.TryParse<FailureClassification>(x, out c) ? c : Unknown
ParseClassification(x) ==
    IF \E i \in DOMAIN FailureClassification : FailureClassification[i] = x
    THEN x ELSE "Unknown"

\* GovernorClient.TryAcquireAsync: the lease id of the result, null when the
\* result is null (no line, no data property, granted not a boolean)
AcquiredLeaseId(l) ==
    IF l.type \in {"none", "error"} \/ GetBooleanThrows(l.data.granted)
       \/ GetStringThrows(l.data.leaseId)
    THEN NullString
    ELSE GetString(l.data.leaseId)

\* GovernorClient.TryReleaseAsync: the ReleaseResult, null when no line came
\* or any step of the decoding throws
NullRelease == [isNull |-> TRUE, Classification |-> "Unknown", Message |-> NullString]
TryRelease(l) ==
    IF \/ l.type \in {"none", "error"}
       \/ GetStringThrows(l.data.classification)
       \/ GetStringThrows(l.data.message)
       \/ GetBooleanThrows(l.data.shouldRetry)
       \/ GetInt32Throws(l.data.retryWithTokens)
    THEN NullRelease
    ELSE [isNull |-> FALSE,
          Classification |-> ParseClassification(GetString(l.data.classification)),
          Message |-> GetString(l.data.message)]

\* the wrapper's condition for printing the diagnostic message
PrintsMessage(exitCode, rr) ==
    /\ ~rr.isNull
    /\ exitCode # 0
    /\ rr.Classification \in {"LikelyOOM", "LikelyPagingDeath"}
    /\ rr.Message \notin {NullString, ""}

\* GovernorAutoStart.IsRunning: a connection to the pipe succeeds
IsRunning == Serving # {}

\* the finally block of TryStartGovernor
ReleaseMutex(s) ==
    IF startMutex.owner = s THEN FreeMutex ELSE startMutex

\* a wrapper that looks for the real tool only after the governor
ShimStart_ConnectsFirst(s) ==
    /\ s = Len(shim) + 1
    /\ \/ shim' = Append(shim, [NoShim EXCEPT !.pc = "connect", !.located = TRUE])
       \/ shim' = Append(shim, [NoShim EXCEPT !.pc = "connect"])
    /\ UNCHANGED <<serviceVars, gov, instanceMutex, startMutex>>

\* the wrapper is started; FindRealCl finds the real tool or Main returns 1
ShimStart(s) ==
    /\ s = Len(shim) + 1
    /\ \/ shim' = Append(shim, [NoShim EXCEPT !.pc = "connect", !.located = TRUE])
       \/ shim' = Append(shim, [NoShim EXCEPT !.pc = "exit", !.exit = ToolNotFound])
    /\ UNCHANGED <<serviceVars, gov, instanceMutex, startMutex>>

\* TryConnect: the first Connect succeeds
ConnectOk(s) ==
    /\ shim[s].pc = "connect"
    /\ IsRunning
    /\ shim' = [shim EXCEPT ![s].pc = "acquire", ![s].connected = TRUE]
    /\ UNCHANGED <<serviceVars, gov, instanceMutex, startMutex>>

\* TryConnect: the first Connect times out, EnsureRunning is entered; its fast
\* path finds the governor or TryStartGovernor opens the mutex
ConnectTimeout(s) ==
    /\ shim[s].pc = "connect"
    /\ shim' = [shim EXCEPT ![s].pc = IF IsRunning THEN "retry" ELSE "wait"]
    /\ UNCHANGED <<serviceVars, gov, instanceMutex, startMutex>>

\* TryConnect: the first Connect throws another exception
ConnectError(s) ==
    /\ shim[s].pc = "connect"
    /\ shim' = [shim EXCEPT ![s].pc = "run"]
    /\ UNCHANGED <<serviceVars, gov, instanceMutex, startMutex>>

\* mutex.WaitOne(5000) returns true
WaitAcquired(s) ==
    /\ shim[s].pc = "wait"
    /\ startMutex = FreeMutex
    /\ startMutex' = [owner |-> s, abandoned |-> FALSE]
    /\ shim' = [shim EXCEPT ![s].pc = "locked"]
    /\ UNCHANGED <<serviceVars, gov, instanceMutex>>

\* mutex.WaitOne(5000) takes a mutex its owner abandoned and throws
\* AbandonedMutexException; the finally block releases the mutex, no handler
\* of TryStartGovernor, EnsureRunning, TryConnect (the call is inside its
\* catch block) or Main catches the exception
WaitAbandoned(s) ==
    /\ shim[s].pc = "wait"
    /\ startMutex.owner = 0 /\ startMutex.abandoned
    /\ startMutex' = FreeMutex
    /\ shim' = [shim EXCEPT ![s].pc = "exit", ![s].exit = UnhandledExit]
    /\ UNCHANGED <<serviceVars, gov, instanceMutex>>

\* mutex.WaitOne(5000) returns false: the result is IsRunning()
WaitTimeout(s) ==
    /\ shim[s].pc = "wait"
    /\ startMutex.owner # 0
    /\ shim' = [shim EXCEPT ![s].pc = IF IsRunning THEN "retry" ELSE "run"]
    /\ UNCHANGED <<serviceVars, gov, instanceMutex, startMutex>>

\* the double check finds the governor
LockedRunning(s) ==
    /\ shim[s].pc = "locked"
    /\ IsRunning
    /\ startMutex' = ReleaseMutex(s)
    /\ shim' = [shim EXCEPT ![s].pc = "retry"]
    /\ UNCHANGED <<serviceVars, gov, instanceMutex>>

\* FindGovernorService returns null or LaunchGovernor returns false
LaunchFails(s) ==
    /\ shim[s].pc = "locked"
    /\ ~IsRunning
    /\ startMutex' = ReleaseMutex(s)
    /\ shim' = [shim EXCEPT ![s].pc = "run"]
    /\ UNCHANGED <<serviceVars, gov, instanceMutex>>

\* LaunchGovernor starts a governor process
LaunchGovernor(s) ==
    /\ shim[s].pc = "locked"
    /\ ~IsRunning
    /\ Len(gov) < NumGovernors
    /\ gov' = Append(gov, NoProcess)
    /\ shim' = [shim EXCEPT ![s].pc = "poll"]
    /\ UNCHANGED <<serviceVars, instanceMutex, startMutex>>

\* the readiness poll finds the governor
PollReady(s) ==
    /\ shim[s].pc = "poll"
    /\ IsRunning
    /\ startMutex' = ReleaseMutex(s)
    /\ shim' = [shim EXCEPT ![s].pc = "retry"]
    /\ UNCHANGED <<serviceVars, gov, instanceMutex>>

\* StartupWaitMs have passed and no poll has found the governor
PollTimeout(s) ==
    /\ shim[s].pc = "poll"
    /\ ~IsRunning
    /\ startMutex' = ReleaseMutex(s)
    /\ shim' = [shim EXCEPT ![s].pc = "run"]
    /\ UNCHANGED <<serviceVars, gov, instanceMutex>>

\* TryConnect: the second Connect, after EnsureRunning returned true
RetryConnect(s) ==
    /\ shim[s].pc = "retry"
    /\ \/ /\ IsRunning
          /\ shim' = [shim EXCEPT ![s].pc = "acquire", ![s].connected = TRUE]
       \/ shim' = [shim EXCEPT ![s].pc = "run"]
    /\ UNCHANGED <<serviceVars, gov, instanceMutex, startMutex>>

\* the lines a connected client can read after a request: none, or a reply of
\* the governor's pipe server
AcquireLines ==
    {NoReply} \cup (IF IsRunning
                    THEN {ErrorLine, AcquireResponseLine(TRUE), AcquireResponseLine(FALSE)}
                    ELSE {})
ReleaseLines(leaseId, exitCode) ==
    {NoReply} \cup (IF IsRunning
                    THEN {ErrorLine} \cup {ReleaseResponseLine(r) :
                                    r \in TokenReleaseResults(leaseId, exitCode)}
                    ELSE {})

\* Main: TryAcquireAsync, leaseId = result?.LeaseId
ShimAcquire(s) ==
    /\ shim[s].pc = "acquire"
    /\ \E l \in AcquireLines :
          shim' = [shim EXCEPT ![s].pc = "run", ![s].leaseId = AcquiredLeaseId(l)]
    /\ UNCHANGED <<serviceVars, gov, instanceMutex, startMutex>>

\* Main: the real tool runs and ends with some exit code; without a lease Main
\* returns that code
ShimRun(s) ==
    /\ shim[s].pc = "run"
    /\ \E e \in ChildExitCodes :
          shim' = [shim EXCEPT
                     ![s].runs = @ + 1,
                     ![s].childExit = e,
                     ![s].pc = IF shim[s].connected /\ shim[s].leaseId # NullString
                               THEN "release" ELSE "exit",
                     ![s].exit = IF shim[s].connected /\ shim[s].leaseId # NullString
                                 THEN NoExit ELSE e]
    /\ UNCHANGED <<serviceVars, gov, instanceMutex, startMutex>>

\* Main: TryReleaseAsync, the diagnostic message, return execResult.ExitCode
ShimRelease(s) ==
    /\ shim[s].pc = "release"
    /\ \E l \in ReleaseLines(shim[s].leaseId, shim[s].childExit) :
          shim' = [shim EXCEPT
                     ![s].reply = l,
                     ![s].printed = PrintsMessage(shim[s].childExit, TryRelease(l)),
                     ![s].pc = "exit",
                     ![s].exit = shim[s].childExit]
    /\ UNCHANGED <<serviceVars, gov, instanceMutex, startMutex>>

\* the shim is killed while it owns the start mutex: the mutex is abandoned
ShimKilled(s) ==
    /\ shim[s].pc \in {"locked", "poll"}
    /\ startMutex.owner = s
    /\ startMutex' = [owner |-> 0, abandoned |-> TRUE]
    /\ shim' = [shim EXCEPT ![s].pc = "killed"]
    /\ UNCHANGED <<serviceVars, gov, instanceMutex>>

\* shims started at any time on a host where only shims launch the governor
ShimNext ==
    \/ \E s \in Shims : ShimStart(s)
    \/ \E s \in DOMAIN shim : ConnectOk(s)
    \/ \E s \in DOMAIN shim : ConnectTimeout(s)
    \/ \E s \in DOMAIN shim : ConnectError(s)
    \/ \E s \in DOMAIN shim : WaitAcquired(s)
    \/ \E s \in DOMAIN shim : WaitAbandoned(s)
    \/ \E s \in DOMAIN shim : WaitTimeout(s)
    \/ \E s \in DOMAIN shim : LockedRunning(s)
    \/ \E s \in DOMAIN shim : LaunchFails(s)
    \/ \E s \in DOMAIN shim : LaunchGovernor(s)
    \/ \E s \in DOMAIN shim : PollReady(s)
    \/ \E s \in DOMAIN shim : PollTimeout(s)
    \/ \E s \in DOMAIN shim : RetryConnect(s)
    \/ \E s \in DOMAIN shim : ShimAcquire(s)
    \/ \E s \in DOMAIN shim : ShimRun(s)
    \/ \E s \in DOMAIN shim : ShimRelease(s)
    \/ \E s \in DOMAIN shim : ShimKilled(s)
    \/ \E g \in DOMAIN gov : GovCheckMutex(g)
    \/ \E g \in DOMAIN gov : GovExit(g)
    \/ \E g \in DOMAIN gov : GovCreatePool(g)
    \/ \E g \in DOMAIN gov : GovListen(g)
    \/ \E g \in DOMAIN gov : GovAccept(g)
    \/ \E g \in DOMAIN gov : GovShutdown(g)
    \/ \E g \in DOMAIN gov : GovCrash(g)

ShimSpec == HostInit /\ [][ShimNext]_vars

\* Main: process.Start() throws (the real tool was found but the system does
\* not start it); no handler of Main catches the exception, `using var client`
\* disposes the pipe and the wrapper ends without reaching TryReleaseAsync
ProcessStartThrows(s) ==
    /\ shim[s].pc = "run"
    /\ shim' = [shim EXCEPT ![s].pc = "exit", ![s].exit = UnhandledExit]
    /\ UNCHANGED <<serviceVars, gov, instanceMutex, startMutex>>

\* the shims on a host that may refuse to start the real tool
LaunchNext ==
    \/ ShimNext
    \/ \E s \in DOMAIN shim : ProcessStartThrows(s)

LaunchSpec == HostInit /\ [][LaunchNext]_vars

(* ---------------------- FailureClassifier.cs --------------------------- *)
\* ClassificationInput: ratios in percent, PeakProcessCommitGb in tenths of a
\* GB, the weights of the evidence in hundredths.  Every sum of the weights the
\* code can form compares with 0.4 and 0.6 in double arithmetic as the exact
\* sum does, so the hundredths lose nothing.
ExitCodes == {0, 1, -1}
Durations == {4999, 5000}
RatioPcts == {87, 88, 91, 92, 94, 95}
PeakGbTenths == {14, 15, 24, 25}
LeaseTokens == 0 .. MaxRequest + 1
ClassificationInput ==
    [ExitCode : ExitCodes, DurationMs : Durations, CommitRatioAtExit : RatioPcts,
     PeakCommitRatioDuringExecution : RatioPcts, PeakProcessCommitGb : PeakGbTenths,
     StderrHadDiagnostics : BOOLEAN]

\* the evidence with the weights of the two commit ratio levels exchanged
OomEvidence_Swapped(input) ==
    (IF input.CommitRatioAtExit >= 92 THEN 25
     ELSE IF input.CommitRatioAtExit >= 88 THEN 40 ELSE 0)
    + (IF input.PeakCommitRatioDuringExecution >= 95 THEN 30 ELSE 0)
    + (IF input.PeakProcessCommitGb >= 25 THEN 20 ELSE 0)
    + (IF ~input.StderrHadDiagnostics THEN 20 ELSE 0)
    + (IF input.DurationMs < 5000 /\ input.PeakProcessCommitGb >= 15 THEN 15 ELSE 0)

\* Classify, lines 27-69: oomEvidence after the five tests
OomEvidence(input) ==
    (IF input.CommitRatioAtExit >= 92 THEN 40
     ELSE IF input.CommitRatioAtExit >= 88 THEN 25 ELSE 0)
    + (IF input.PeakCommitRatioDuringExecution >= 95 THEN 30 ELSE 0)
    + (IF input.PeakProcessCommitGb >= 25 THEN 20 ELSE 0)
    + (IF ~input.StderrHadDiagnostics THEN 20 ELSE 0)
    + (IF input.DurationMs < 5000 /\ input.PeakProcessCommitGb >= 15 THEN 15 ELSE 0)

\* a ClassificationResult; Message stands for the formatted text
ClassificationResult(classification, message, shouldRetry, confidence) ==
    [Classification |-> classification, Message |-> message,
     ShouldRetry |-> shouldRetry, Confidence |-> confidence]

\* a classification that tests the upper threshold only
ClassifyEvidence_NoPaging(input, oomEvidence) ==
    IF oomEvidence >= 60
    THEN ClassificationResult("LikelyOOM", "oom", TRUE, Min(100, oomEvidence))
    ELSE IF input.StderrHadDiagnostics
    THEN ClassificationResult("NormalCompileError", NullString, FALSE,
                              Min(100, oomEvidence))
    ELSE ClassificationResult("Unknown", "unknown cause", FALSE,
                              Min(100, oomEvidence))

\* Classify, lines 71-108
ClassifyEvidence(input, oomEvidence) ==
    IF oomEvidence >= 60
    THEN ClassificationResult("LikelyOOM", "oom", TRUE, Min(100, oomEvidence))
    ELSE IF oomEvidence >= 40
    THEN ClassificationResult("LikelyPagingDeath", "paging", TRUE,
                              Min(100, oomEvidence))
    ELSE IF input.StderrHadDiagnostics
    THEN ClassificationResult("NormalCompileError", NullString, FALSE,
                              Min(100, oomEvidence))
    ELSE ClassificationResult("Unknown", "unknown cause", FALSE,
                              Min(100, oomEvidence))

\* a classifier without the success case
Classify_NoSuccess(input) == ClassifyEvidence(input, OomEvidence(input))

\* FailureClassifier.Classify
Classify(input) ==
    IF input.ExitCode = 0
    THEN ClassificationResult("Success", NullString, FALSE, 100)
    ELSE ClassifyEvidence(input, OomEvidence(input))

\* a retry suggestion of half the lease, also when that is nothing
RetryWithTokens_Half(shouldRetry, tokens) ==
    IF shouldRetry THEN tokens \div 2 ELSE NullInt

\* TokenPool.ReleaseAsync, line 174
RetryWithTokens(shouldRetry, tokens) ==
    IF shouldRetry THEN Max(1, tokens \div 2) ELSE NullInt

\* TokenPool.ReleaseAsync, lines 152-175: the result of an acknowledged release
\* of a lease of the given tokens
TokenReleaseResult(tokens, input) ==
    LET classification == Classify(input)
    IN  [Acknowledged |-> TRUE,
         Classification |-> classification.Classification,
         Message |-> classification.Message,
         ShouldRetry |-> classification.ShouldRetry,
         RetryWithTokens |-> RetryWithTokens(classification.ShouldRetry, tokens)]

NoClassification == ClassificationResult("none", NullString, FALSE, 0)
NoRelease == [Acknowledged |-> FALSE, Classification |-> "none",
              Message |-> NullString, ShouldRetry |-> FALSE,
              RetryWithTokens |-> NullInt]

\* the evidence Classify gathered: none when it returns at line 16
EvidenceOf(input) == IF input.ExitCode = 0 THEN 0 ELSE OomEvidence(input)

\* an idle service: nothing but the pure function called changes
QuietPool ==
    /\ PoolInit
    /\ hostMemory = MemoryStatus
    /\ \A s \in hostMemory : lastMemoryStatus.CommitChargeGb <= s.CommitChargeGb
\* the service, the governor processes and the shims
quietHost == <<now, poolVars, lockHolder, pc, call, result, monPc, calls,
               hostMemory, pipeVars, gov, instanceMutex, shim, startMutex>>
\* everything but the pure function called
quietVars == <<quietHost, idle>>

\* an exit of a tool that held a lease is about to be classified
ClassifyInit ==
    /\ QuietPool
    /\ idle = NoIdle
    /\ \E input \in ClassificationInput, tokens \in LeaseTokens :
          calc = [input |-> input, tokens |-> tokens, oomEvidence |-> 0,
                  previousEvidence |-> NullInt, classification |-> NoClassification, release |-> NoRelease]

\* FailureClassifier.Classify is called
ClassifyCall ==
    /\ calc.classification = NoClassification
    /\ calc' = [calc EXCEPT !.oomEvidence = EvidenceOf(calc.input),
                            !.classification = Classify(calc.input)]
    /\ UNCHANGED quietVars

\* TokenPool.ReleaseAsync builds the result of the release
ReleaseCall ==
    /\ calc.release = NoRelease
    /\ calc' = [calc EXCEPT !.release = TokenReleaseResult(calc.tokens, calc.input)]
    /\ UNCHANGED quietVars

\* the same exit is classified again with a higher commit ratio at exit
RaiseCommitRatio ==
    /\ calc.classification # NoClassification
    /\ calc.release = NoRelease
    /\ \E r \in RatioPcts :
          /\ r > calc.input.CommitRatioAtExit
          /\ LET input == [calc.input EXCEPT !.CommitRatioAtExit = r]
             IN  calc' = [calc EXCEPT !.input = input,
                                      !.previousEvidence = calc.oomEvidence,
                                      !.oomEvidence = EvidenceOf(input),
                                      !.classification = Classify(input)]
    /\ UNCHANGED quietVars

\* the same exit is classified again without diagnostics in stderr
DropDiagnostics ==
    /\ calc.classification # NoClassification
    /\ calc.release = NoRelease
    /\ calc.input.StderrHadDiagnostics
    /\ LET input == [calc.input EXCEPT !.StderrHadDiagnostics = FALSE]
       IN  calc' = [calc EXCEPT !.input = input,
                                !.previousEvidence = calc.oomEvidence,
                                !.oomEvidence = EvidenceOf(input),
                                !.classification = Classify(input)]
    /\ UNCHANGED quietVars

ClassifyNext == ClassifyCall \/ ReleaseCall \/ RaiseCommitRatio \/ DropDiagnostics

ClassifySpec == ClassifyInit /\ [][ClassifyNext]_vars

(* ------------- WindowsMemoryMetrics.CalculateTokenBudget --------------- *)
\* the snapshots the budget is computed of: commit limits in GB, every charge
\* up to the limit
BudgetLimits == {0, CommitLimitGb, 100}
BudgetSnapshots ==
    {[CommitLimitGb |-> l, CommitChargeGb |-> c] : l \in BudgetLimits, c \in 0 .. 100}
        \ {s \in [CommitLimitGb : BudgetLimits, CommitChargeGb : 0 .. 100] :
              s.CommitChargeGb > s.CommitLimitGb}
NoBudget == [TotalTokens |-> 0, ThrottleLevel |-> "none", RecommendedParallelism |-> 0]

\* a snapshot is about to be turned into a budget
BudgetInit ==
    /\ QuietPool
    /\ idle = NoIdle
    /\ \E status \in BudgetSnapshots : calc = [status |-> status, budget |-> NoBudget]

\* WindowsMemoryMetrics.CalculateTokenBudget is called
BudgetCall ==
    /\ calc.budget = NoBudget
    /\ calc' = [calc EXCEPT !.budget = CalculateTokenBudget(calc.status)]
    /\ UNCHANGED quietVars

BudgetNext == BudgetCall

BudgetSpec == BudgetInit /\ [][BudgetNext]_vars

(* ------------------- TokenPool(TokenBudgetConfig) ---------------------- *)
\* the configurations a TokenPool can be constructed with: the properties of
\* TokenBudgetConfig are set freely by its object initializer
ConfigRatios == {CautionRatio, SoftStopRatio, HardStopRatio}
ConfigTokens == {MinTokens, MaxTokens}
TokenBudgetConfig ==
    [MinTokens : ConfigTokens, MaxTokens : ConfigTokens,
     CautionRatio : ConfigRatios, SoftStopRatio : ConfigRatios,
     HardStopRatio : ConfigRatios]

\* Math.Clamp(value, min, max) throws ArgumentException
ClampThrows(min, max) == min > max

\* a pool is about to be constructed with some configuration
ConfigInit ==
    /\ QuietPool
    /\ idle = NoIdle
    /\ \E config \in TokenBudgetConfig : calc = [config |-> config, pool |-> "none"]

\* TokenPool constructor, lines 28-37: the configuration is stored as it is,
\* RecalculateBudget computes the first budget and the monitor is started
PoolCreated ==
    /\ calc.pool = "none"
    /\ ~ClampThrows(calc.config.MinTokens, calc.config.MaxTokens)
    /\ calc' = [calc EXCEPT !.pool = "created"]
    /\ UNCHANGED quietVars

\* TokenPool constructor, line 32: the exception of Math.Clamp in
\* CalculateTokenBudget leaves the constructor
PoolRejected ==
    /\ calc.pool = "none"
    /\ ClampThrows(calc.config.MinTokens, calc.config.MaxTokens)
    /\ calc' = [calc EXCEPT !.pool = "rejected"]
    /\ UNCHANGED quietVars

ConfigNext == PoolCreated \/ PoolRejected

ConfigSpec == ConfigInit /\ [][ConfigNext]_vars

(* ------------------ Program.cs, MonitorIdleTimeout --------------------- *)
\* time in minutes since the start of the governor.  The monitor wakes at the
\* full minutes; what the pool does between two wake-ups happens within the
\* minute that began at the earlier one
IdleTimeout == 30
PollPeriod == 1
MaxMinutes == 33
MaxLeases == 1
\* lines 5-7: the mode the governor was started in
Modes == {"console", "service", "background"}

\* the governor has just started: lastActivity = UtcNow (line 111), the pool
\* is empty
IdleInit ==
    /\ QuietPool
    /\ calc = NoCalc
    /\ \E mode \in Modes :
          idle = [mode |-> mode, pc |-> "running", clock |-> 0, lastActivity |-> 0,
                  activeLeases |-> 0, lastLeased |-> NullInt]

\* the last minute in which a lease was active, after the clock moved to t
LastLeased(t) == IF idle.activeLeases > 0 THEN t ELSE idle.lastLeased

\* line 122, DateTime.UtcNow - lastActivity > timeout
IdleExpired(t, lastActivity) == t - lastActivity > IdleTimeout

\* lines 97 and 113-132: Task.Delay of one minute ends, GetStatus is read;
\* with a lease active lastActivity is set, else after the timeout the token
\* is cancelled and the loop left
IdlePoll ==
    /\ idle.mode = "background"
    /\ idle.pc = "running"
    /\ idle.clock + PollPeriod <= MaxMinutes
    /\ LET t == idle.clock + PollPeriod
       IN  idle' = [idle EXCEPT
                      !.clock = t,
                      !.lastLeased = LastLeased(t),
                      !.lastActivity = IF idle.activeLeases > 0 THEN t ELSE @,
                      !.pc = IF idle.activeLeases = 0 /\ IdleExpired(t, idle.lastActivity)
                               THEN "idleExit" ELSE @]
    /\ UNCHANGED <<quietHost, calc>>

\* lines 94-98: without --background no idle task exists; a minute passes
MinutePasses ==
    /\ idle.mode # "background"
    /\ idle.pc = "running"
    /\ idle.clock + 1 <= MaxMinutes
    /\ idle' = [idle EXCEPT !.clock = @ + 1, !.lastLeased = LastLeased(idle.clock + 1)]
    /\ UNCHANGED <<quietHost, calc>>

\* TokenPool.cs:92, TryAcquireAsync puts a lease into _activeLeases
LeaseAcquired ==
    /\ idle.pc = "running"
    /\ idle.activeLeases < MaxLeases
    /\ idle' = [idle EXCEPT !.activeLeases = @ + 1, !.lastLeased = idle.clock]
    /\ UNCHANGED <<quietHost, calc>>

\* TokenPool.cs:143 and 260, ReleaseAsync or the sweep removes a lease
LeaseRemoved ==
    /\ idle.pc = "running"
    /\ idle.activeLeases > 0
    /\ idle' = [idle EXCEPT !.activeLeases = @ - 1]
    /\ UNCHANGED <<quietHost, calc>>

\* lines 84-90, Ctrl+C cancels the token
Cancelled ==
    /\ idle.pc = "running"
    /\ idle.mode = "console"
    /\ idle' = [idle EXCEPT !.pc = "cancelled"]
    /\ UNCHANGED <<quietHost, calc>>

IdleNext == IdlePoll \/ MinutePasses \/ LeaseAcquired \/ LeaseRemoved \/ Cancelled

IdleSpec == IdleInit /\ [][IdleNext]_vars

(* --------------------------- specification ----------------------------- *)
Next ==
    \/ Tick
    \/ \E c \in Conns :
          \/ StartAcquire(c) \/ AcqLock(c) \/ AcqProbeFails(c)
          \/ AcqDecrement(c) \/ AcqWake(c)
          \/ StartRelease(c) \/ RelLock(c) \/ RelAdd(c) \/ RelProbeFails(c)
    \/ MonitorTick

Spec == Init /\ [][Next]_vars

\* the token pool on a host whose probe can return every snapshot at every call
AnySnapshotInit == Init /\ hostMemory = MemoryStatus

AnySnapshotSpec == AnySnapshotInit /\ [][Next]_vars

\* the token pool on a host that shows one snapshot throughout
SteadyInit == Init /\ Cardinality(hostMemory) = 1

SteadySpec == SteadyInit /\ [][Next]_vars

\* scheduling: the clock advances, a task that is ready to run does run, and a
\* task waiting for _lock gets it if the lock is free again and again
FairSpec ==
    /\ Spec
    /\ WF_vars(Tick)
    /\ \A c \in Conns :
          /\ SF_vars(AcqLock(c) \/ AcqProbeFails(c))
          /\ WF_vars(AcqDecrement(c))
          /\ WF_vars(AcqWake(c))
          /\ WF_vars(RelAdd(c) \/ RelProbeFails(c))

\* the pool with a probe that can fail in the monitor too
MonitorNext == Next \/ MonProbeFails

\* scheduling as in FairSpec; the timer keeps ticking and the monitor, while
\* its task lives, gets _lock again and again
MonitorSpec ==
    /\ Init /\ [][MonitorNext]_vars
    /\ WF_vars(Tick)
    /\ SF_vars(MonitorTick \/ MonProbeFails)
    /\ \A c \in Conns :
          /\ SF_vars(AcqLock(c) \/ AcqProbeFails(c))
          /\ WF_vars(AcqDecrement(c))
          /\ WF_vars(AcqWake(c))
          /\ WF_vars(RelAdd(c) \/ RelProbeFails(c))

\* the pool at the moment a first request has been granted a lease at pool
\* start, on a host whose probe never fails and always shows the same
\* snapshot, one below HardStop; calls counts the calls made from then on
WaitInit ==
    /\ now = 0
    /\ hostMemory \in {{s} : s \in {m \in MemoryStatus :
                          ~IsHardStop(CalculateTokenBudget(m).ThrottleLevel)}}
    /\ lastMemoryStatus \in hostMemory
    /\ totalTokens = CalculateTokenBudget(lastMemoryStatus).TotalTokens
    /\ throttleLevel = CalculateTokenBudget(lastMemoryStatus).ThrottleLevel
    /\ \E k \in 1..Min(MaxRequest, totalTokens) :
          /\ activeLeases = SetLease(<< >>, 1, NewLease(1, k))
          /\ availableTokens = totalTokens - k
    /\ expiredLeaseCount = 0
    /\ lockHolder = LockFree
    /\ pc = [c \in Conns |-> "idle"]
    /\ call = [c \in Conns |-> NoCall]
    /\ result = NoResult
    /\ monPc = "running"
    /\ calls = 0
    /\ line = [c \in Conns |-> NoLine]
    /\ received = [c \in Conns |-> 0]
    /\ sent = [c \in Conns |-> 0]
    /\ closed = {}
    /\ gov = <<>>
    /\ instanceMutex = {}
    /\ shim = <<>>
    /\ startMutex = FreeMutex
    /\ calc = NoCalc
    /\ idle = NoIdle

\* a timeoutMs shorter than the shortest retry delay
ShortTimeout == DelayNormal \div 2

\* a TryAcquireAsync call with a short timeout: whenever it has to sleep, the
\* deadline passes during the sleep
StartShortAcquire(c) ==
    /\ AcceptsRequest(c)
    /\ \E r \in RequestedTokens : BeginAcquire(c, r, ShortTimeout)
    /\ UNCHANGED otherVars

WaitNext ==
    \/ Tick
    \/ \E c \in Conns :
          \/ StartShortAcquire(c) \/ AcqLock(c) \/ AcqDecrement(c) \/ AcqWake(c)
          \/ StartRelease(c) \/ RelLock(c) \/ RelAdd(c)
    \/ MonitorTick

\* scheduling as in FairSpec
WaitSpec ==
    /\ WaitInit /\ [][WaitNext]_vars
    /\ WF_vars(Tick)
    /\ \A c \in Conns :
          /\ SF_vars(AcqLock(c))
          /\ WF_vars(AcqDecrement(c))
          /\ WF_vars(AcqWake(c))
          /\ WF_vars(RelAdd(c))

TypeOK ==
    /\ now \in ClockValues
    /\ totalTokens \in MinTokens..MaxTokens
    /\ availableTokens \in 0..MaxAvailable
    /\ lockHolder \in {LockFree} \cup Conns
    /\ DOMAIN activeLeases \subseteq LeaseIds
    /\ monPc \in {"running", "dead"}
    /\ calls \in 0..MaxCalls

(* ------------------------------- claims -------------------------------- *)
\* a step of the request handler of connection c
HandlerStep(c) == pc'[c] # pc[c] \/ call'[c] # call[c] \/ result'.conn = c

\* connection c evaluates its acquire request: it takes the lock and the probe
\* succeeds
Evaluates(c) ==
    /\ pc[c] = "acqWaitLock" /\ pc'[c] # "acqWaitLock"
    /\ result'.kind # "exception"

\* every snapshot the host shows in this run yields the same total_tokens
FixedBudget ==
    \A s, t \in hostMemory :
        CalculateTokenBudget(s).TotalTokens = CalculateTokenBudget(t).TotalTokens

\* C1: under a fixed budget, whenever the pool lock is free,
\* available_tokens + (sum of the tokens of the active leases) = total_tokens
C1_TokenConservation ==
    (FixedBudget /\ lockHolder = LockFree) =>
        availableTokens + LeasedTokens = totalTokens

\* C2: in every reachable state min_tokens <= total_tokens <= max_tokens and
\* 0 <= available_tokens <= total_tokens
C2_CountersInRange ==
    /\ MinTokens <= totalTokens /\ totalTokens <= MaxTokens
    /\ 0 <= availableTokens /\ availableTokens <= totalTokens

\* C3: an evaluation of try_acquire that finds throttle_level = HardStop returns
\* a denial in that very step, whatever was requested and whatever is
\* available, and creates no lease
C3_HardStopDeniesAtOnce ==
    [][\A c \in Conns :
          (Evaluates(c) /\ throttleLevel' = "HardStop") =>
              /\ result'.conn = c
              /\ result'.kind = "acquire"
              /\ ~result'.Success
              /\ result'.Reason = "HardStop"
              /\ result'.LeaseId = NoLease
              /\ pc'[c] = "idle"
              /\ activeLeases' = activeLeases
              /\ availableTokens' = RecalculateBudget(lastMemoryStatus', totalTokens,
                                                      availableTokens).availableTokens
      ]_vars
C3_Witness ==
    /\ result.kind = "acquire" /\ result.Reason = "HardStop"
    /\ result.call.requestedTokens = 0
    /\ availableTokens > 0

\* C4: an evaluation with the throttle not at HardStop grants iff
\* min(requested, available) > 0 or requested = 0; a grant inserts a lease
\* holding exactly min(requested, available) tokens, decrements
\* available_tokens by exactly that amount and returns it as granted_tokens
C4_GrantAmount ==
    [][\A c \in Conns :
          /\ (Evaluates(c) /\ throttleLevel' # "HardStop") =>
                LET requested == call[c].requestedTokens
                    granted == IF requested <= availableTokens'
                                 THEN requested ELSE availableTokens'
                IN  /\ (pc'[c] = "acqDecrement") <=> (granted > 0 \/ requested = 0)
                    /\ pc'[c] = "acqDecrement" =>
                          /\ call'[c].leaseId \in DOMAIN activeLeases'
                          /\ activeLeases'[call'[c].leaseId].Tokens = granted
                          /\ call'[c].tokens = granted
                          /\ \A id \in DOMAIN activeLeases' :
                                id # call'[c].leaseId =>
                                   /\ id \in DOMAIN activeLeases
                                   /\ activeLeases'[id] = activeLeases[id]
                    /\ pc'[c] # "acqDecrement" =>
                          /\ activeLeases' = activeLeases
                          /\ result'.kind = "none"
          /\ (pc[c] = "acqDecrement" /\ pc'[c] # "acqDecrement") =>
                /\ availableTokens' = availableTokens - call[c].tokens
                /\ activeLeases' = activeLeases
                /\ result'.conn = c /\ result'.Success
                /\ result'.GrantedTokens = call[c].tokens
                /\ result'.LeaseId = call[c].leaseId
      ]_vars
C4_Witness ==
    /\ result.kind = "acquire" /\ result.Success
    /\ result.call.requestedTokens = 0
    /\ result.GrantedTokens = 0
    /\ availableTokens = 0
    /\ result.LeaseId \in DOMAIN activeLeases

\* C5: a try_acquire call never returns a timeout denial before it has
\* evaluated the grant condition at least once
C5_EvaluatesBeforeTimeout ==
    (result.kind = "acquire" /\ result.Reason = "Timeout") =>
        result.call.evaluations >= 1

\* C6: every try_acquire call returns a grant or a denial, and once its
\* deadline has passed it starts no further retry
C6_ReturnsGrantOrDenial ==
    [][\A c \in Conns :
          /\ (call[c].op = "acquire" /\ pc'[c] = "idle" /\ pc[c] # "idle") =>
                /\ result'.conn = c
                /\ result'.kind = "acquire"
                /\ (result'.Success \/ result'.Reason \in {"HardStop", "Timeout"})
          /\ (pc[c] = "acqDelay" /\ pc'[c] = "acqWaitLock") => now < call[c].deadline
      ]_vars

\* under fair scheduling every TryAcquireAsync call ends (by a result or by
\* the exception of a failed probe)
AcquireEnds == \A c \in Conns : (call[c].op = "acquire") ~> (pc[c] = "idle")

\* C7: a denied try_acquire returns no lease id and granted_tokens = 0, and no
\* step of the call has touched the lease table
C7_DenialHasNoGrant ==
    /\ [](result.kind = "acquire" /\ ~result.Success =>
             /\ result.LeaseId = NoLease
             /\ result.GrantedTokens = 0
             /\ result.call.leaseId = NoLease)
    /\ [][\A c \in Conns :
             (HandlerStep(c) /\ (call[c].op = "acquire" \/ call'[c].op = "acquire"
                                 \/ result'.kind = "acquire")
                /\ activeLeases' # activeLeases) =>
                   /\ pc'[c] = "acqDecrement"
                   /\ call'[c].leaseId # NoLease
         ]_vars
C7_Witness ==
    /\ result.kind = "acquire" /\ result.Reason = "Timeout"
    /\ result.call.evaluations = 1
    /\ DOMAIN activeLeases # {}

\* C8: release of an id that is not in the lease table returns
\* acknowledged = false and changes no counter and no lease
C8_UnknownLeaseNoEffect ==
    [][\A c \in Conns :
          (pc[c] = "relWaitLock" /\ pc'[c] # "relWaitLock"
             /\ call[c].leaseId \notin DOMAIN activeLeases) =>
                /\ result'.conn = c
                /\ result'.kind = "release"
                /\ ~result'.Acknowledged
                /\ UNCHANGED <<totalTokens, availableTokens, activeLeases,
                               expiredLeaseCount>>
      ]_vars
C8_Witness ==
    /\ result.kind = "release" /\ ~result.Acknowledged
    /\ DOMAIN activeLeases # {}
    /\ result.call.leaseId \notin DOMAIN activeLeases

\* C9: release of the id of an active lease removes exactly that lease, adds
\* exactly its tokens to available_tokens and returns acknowledged = true
C9_ReleaseReturnsTokens ==
    [][\A c \in Conns :
          /\ (pc[c] = "relWaitLock" /\ pc'[c] # "relWaitLock"
                /\ call[c].leaseId \in DOMAIN activeLeases) =>
                   /\ DOMAIN activeLeases' = (DOMAIN activeLeases) \ {call[c].leaseId}
                   /\ \A id \in DOMAIN activeLeases' : activeLeases'[id] = activeLeases[id]
                   /\ call'[c].tokens = activeLeases[call[c].leaseId].Tokens
          /\ (pc[c] = "relAdd" /\ pc'[c] # "relAdd") =>
                   /\ availableTokens' = availableTokens + call[c].tokens
                   /\ activeLeases' = activeLeases
                   /\ result'.conn = c
                   /\ result'.kind = "release"
                   /\ result'.Acknowledged
      ]_vars

\* C10: a lease leaves the Active state only by a release or by expiry, and
\* its tokens are added back to available_tokens
C10_LeavesByReleaseOrExpiry ==
    [][\A id \in DOMAIN activeLeases :
          (id \notin DOMAIN activeLeases'
             \/ activeLeases'[id].AcquiredAt # activeLeases[id].AcquiredAt
             \/ activeLeases'[id].Tokens # activeLeases[id].Tokens) =>
                \/ \E c \in Conns :
                      /\ pc[c] = "relWaitLock" /\ pc'[c] = "relAdd"
                      /\ call[c].leaseId = id
                      /\ call'[c].tokens = activeLeases[id].Tokens
                      /\ id \notin DOMAIN activeLeases'
                \/ /\ now >= activeLeases[id].ExpiresAt
                   /\ expiredLeaseCount' > expiredLeaseCount
                   /\ id \notin DOMAIN activeLeases'
      ]_vars

\* C12: the lease id of a new grant is not the key of an entry of the lease
\* table, so the insertion of the new lease overwrites no active lease
C12_FreshLeaseId ==
    [][\A c \in Conns :
          (pc[c] = "acqWaitLock" /\ pc'[c] = "acqDecrement") =>
              /\ call'[c].leaseId \notin DOMAIN activeLeases
              /\ \A id \in DOMAIN activeLeases :
                    id \in DOMAIN activeLeases' /\ activeLeases'[id] = activeLeases[id]
      ]_vars

\* a timer tick of the monitor that changed the pool: no handler moved, the
\* clock stood still
MonitorStep == pc' = pc /\ call' = call /\ now' = now /\ poolVars' # poolVars

\* the leases of a table that time t has not expired
Unexpired(leases, t) == {id \in DOMAIN leases : t < leases[id].ExpiresAt}

\* C14: a budget recompute (in an acquire evaluation or in a monitor tick)
\* removes no active lease and changes neither the tokens nor the expiry of
\* one, even when the new total is below the tokens in use; it sets
\* available = max(0, new_total - in_use) with in_use = old_total - old_available
C14_RecomputeKeepsLeases ==
    [][LET inUse == totalTokens - availableTokens
           newTotal == CalculateTokenBudget(lastMemoryStatus').TotalTokens
           recomputed == IF newTotal - inUse > 0 THEN newTotal - inUse ELSE 0
       IN  /\ \A c \in Conns :
                Evaluates(c) =>
                   /\ totalTokens' = newTotal
                   /\ availableTokens' = recomputed
                   /\ \A id \in DOMAIN activeLeases :
                         (pc'[c] = "acqDecrement" => id # call'[c].leaseId) =>
                            /\ id \in DOMAIN activeLeases'
                            /\ activeLeases'[id].Tokens = activeLeases[id].Tokens
                            /\ activeLeases'[id].ExpiresAt = activeLeases[id].ExpiresAt
           /\ MonitorStep =>
                /\ totalTokens' = newTotal
                /\ availableTokens' =
                      recomputed + SumTokens(activeLeases, ExpiredIds(activeLeases, now))
                /\ \A id \in Unexpired(activeLeases, now) :
                      /\ id \in DOMAIN activeLeases'
                      /\ activeLeases'[id].Tokens = activeLeases[id].Tokens
                      /\ activeLeases'[id].ExpiresAt = activeLeases[id].ExpiresAt
      ]_vars
C14_Witness ==
    /\ lockHolder = LockFree
    /\ DOMAIN activeLeases # {}
    /\ totalTokens < LeasedTokens
    /\ availableTokens = 0
    /\ totalTokens = CalculateTokenBudget(lastMemoryStatus).TotalTokens

\* a lease that has reached its expiry leaves the table
ExpiredLeaseSwept ==
    \A id \in LeaseIds :
        (id \in DOMAIN activeLeases /\ now >= activeLeases[id].ExpiresAt)
            ~> ~(id \in DOMAIN activeLeases /\ now >= activeLeases[id].ExpiresAt)

\* C11: a granted lease that is never released is removed by the periodic
\* sweep once now >= expires_at, as long as the governor keeps running; so
\* while the governor runs with a lease in its table, the sweep is running
C11_SweepRunsWhileLeased ==
    DOMAIN activeLeases # {} => monPc = "running"

\* C13: a heartbeat request for lease id L is answered with true iff L is in
\* the active lease table at that moment
C13_HeartbeatReportsLease ==
    (result.kind = "heartbeat" /\ result.request.data = "ok") =>
        (result.alive <=> result.request.leaseId \in DOMAIN activeLeases)

\* the type of the reply that answers a request of type t
ResponseType(t) ==
    IF t = "acquire" THEN "acquire_response"
    ELSE IF t = "release" THEN "release_response"
    ELSE IF t = "status" THEN "status_response"
    ELSE IF t = "heartbeat" THEN "heartbeat_response"
    ELSE "error"

\* reply line r answers request line l
Answers(r, l) == l # NoLine /\ r.type \in {ResponseType(l.type), "error"}

\* C19: on a single connection there is exactly one reply line per request
\* line, in the order of the requests: the n-th reply answers the n-th
\* request, and a request is read only after the reply to the previous one
\* has been written
C19_OneReplyPerRequest ==
    \A c \in Conns :
        /\ sent[c] <= received[c] /\ received[c] <= sent[c] + 1
        /\ (received[c] = sent[c] + 1) <=> (line[c] # NoLine)
        /\ pc[c] # "idle" => line[c].type = call[c].op
        /\ (result.conn = c /\ line[c] # NoLine) => Answers(ReplyLine(result), line[c])
        /\ (result.conn = c /\ line[c] = NoLine) =>
              /\ Answers(ReplyLine(result), result.request)
              /\ sent[c] = received[c]
C19_Witness ==
    \E c \in Conns :
        /\ received[c] = 2 /\ sent[c] = 2
        /\ result.conn = c /\ result.kind = "acquire" /\ result.Reason = "Timeout"
        /\ result.call.evaluations = 1
        /\ result.request.type = "acquire"

\* a request line that is not JSON, has no type, has an unknown type or has a
\* data object of the wrong shape
IsMalformed(l) ==
    l # NoLine /\ (~l.json \/ l.type \in {"missing", "bogus"} \/ l.data = "bad")

\* C20: a malformed request line is answered with a single error object; the
\* connection is back at reading the next line and the pool state is unchanged
C20_MalformedLineGetsError ==
    [][\A c \in Conns :
          (received'[c] = received[c] + 1 /\ IsMalformed(result'.request)) =>
              /\ ReplyLine(result').type = "error"
              /\ sent'[c] = sent[c] + 1
              /\ ReadsNext(c)'
              /\ UNCHANGED <<poolVars, lockHolder, pc, call, now>>
      ]_vars

Starting == {g \in DOMAIN gov : gov[g].pc \in {"main", "refused", "owner", "pool"}}

\* C16: shims running the auto-start procedure concurrently launch one governor
\* process per cold start: while a launched process is still starting, no second
\* process is launched
C16_OneLaunchPerColdStart == Cardinality(Starting) <= 1

\* C17: a shim invocation that has located the real tool and has ended has run
\* the tool exactly once and exited with the child's exit code
C17_FailOpen ==
    \A s \in DOMAIN shim :
        (shim[s].pc = "exit" /\ shim[s].located) =>
            (shim[s].runs = 1 /\ shim[s].exit = shim[s].childExit)

\* the release_response line carries classification c of the governor
Classified(l, c) ==
    l.type = "release_response" /\ l.data.classification = SerializeEnum(c)

\* C18: a shim that held a lease, reported a nonzero exit code and was sent a
\* release_response has printed the diagnostic message iff the governor
\* classified the release as LikelyOOM or LikelyPagingDeath
C18_DiagnosticPrinted ==
    \A s \in DOMAIN shim :
        (shim[s].pc = "exit" /\ shim[s].leaseId = "lease"
           /\ shim[s].reply.type = "release_response" /\ shim[s].childExit # 0) =>
            (shim[s].printed <=> \/ Classified(shim[s].reply, "LikelyOOM")
                                 \/ Classified(shim[s].reply, "LikelyPagingDeath"))

\* C22: an exit with code 0 is classified as Success, with no retry and no
\* message, whatever the other inputs are
C22_ExitZeroIsSuccess ==
    (calc # NoCalc /\ calc.classification # NoClassification
       /\ calc.input.ExitCode = 0) =>
        /\ calc.classification.Classification = "Success"
        /\ ~calc.classification.ShouldRetry
        /\ calc.classification.Message = NullString
C22_Witness ==
    /\ calc # NoCalc
    /\ calc.classification # NoClassification
    /\ calc.input.ExitCode = 0
    /\ calc.input.CommitRatioAtExit >= 92
    /\ calc.input.PeakCommitRatioDuringExecution >= 95
    /\ ~calc.input.StderrHadDiagnostics

\* the weight w if the condition holds
Weight(condition, w) == IF condition THEN w ELSE 0
\* the sum of the scored weights, in hundredths
ScoredWeights(input) ==
    Weight(input.CommitRatioAtExit >= 92, 40)
    + Weight(input.CommitRatioAtExit >= 88 /\ input.CommitRatioAtExit < 92, 25)
    + Weight(input.PeakCommitRatioDuringExecution >= 95, 30)
    + Weight(input.PeakProcessCommitGb >= 25, 20)
    + Weight(~input.StderrHadDiagnostics, 20)
    + Weight(input.DurationMs < 5000 /\ input.PeakProcessCommitGb >= 15, 15)

\* C23: for a nonzero exit code the classification is LikelyOOM iff the sum of
\* the scored weights is >= 0.60, LikelyPagingDeath iff it is in [0.40, 0.60),
\* otherwise NormalCompileError with diagnostics in stderr and Unknown without;
\* should_retry is true exactly for LikelyOOM and LikelyPagingDeath
C23_EvidenceThresholds ==
    (calc # NoCalc /\ calc.classification # NoClassification
       /\ calc.input.ExitCode # 0) =>
        LET evidence == ScoredWeights(calc.input)
            c == calc.classification
        IN  /\ calc.oomEvidence = evidence
            /\ c.Classification = "LikelyOOM" <=> evidence >= 60
            /\ c.Classification = "LikelyPagingDeath" <=> (40 <= evidence /\ evidence < 60)
            /\ c.Classification = "NormalCompileError" <=>
                  (evidence < 40 /\ calc.input.StderrHadDiagnostics)
            /\ c.Classification = "Unknown" <=>
                  (evidence < 40 /\ ~calc.input.StderrHadDiagnostics)
            /\ c.ShouldRetry <=> c.Classification \in {"LikelyOOM", "LikelyPagingDeath"}
C23_Witness ==
    /\ calc # NoCalc
    /\ calc.classification.Classification = "LikelyPagingDeath"
    /\ calc.oomEvidence = 40
    /\ calc.input.StderrHadDiagnostics

\* C24: with a nonzero exit code and all other inputs unchanged, a higher
\* commit ratio at exit, or stderr diagnostics going from present to absent,
\* never lowers oom_evidence
C24_EvidenceMonotone ==
    [][(calc.classification # NoClassification /\ calc'.input # calc.input
          /\ calc.input.ExitCode # 0) =>
            calc'.oomEvidence >= calc.oomEvidence]_vars
C24_Witness ==
    /\ calc # NoCalc
    /\ calc.input.ExitCode # 0
    /\ calc.input.CommitRatioAtExit = 92
    /\ ~calc.input.StderrHadDiagnostics
    /\ calc.previousEvidence = 45
    /\ calc.oomEvidence = 60

FloorDiv(v, d) == CHOOSE q \in 0 .. v : q * d <= v /\ v < (q + 1) * d
\* the commit ratio of a snapshot is at least pct percent
RatioGeq(status, pct) ==
    \/ status.CommitLimitGb = 0 /\ pct <= 0
    \/ status.CommitLimitGb > 0
          /\ status.CommitChargeGb * 100 >= pct * status.CommitLimitGb

C28_ProbeFailureIsWorstCase ==
    [][/\ \A c \in Conns :
            (pc[c] = "acqWaitLock" /\ pc'[c] = "idle") =>
                /\ result'.conn = c
                /\ result'.kind = "acquire"
                /\ result'.Reason = "HardStop"
       /\ monPc = "running" => monPc' = "running"
      ]_vars

\* C30: a status answer is a snapshot taken under the pool lock: it never
\* shows the middle of an acquire, where the new lease is counted in
\* activeLeases while its tokens are still counted in availableTokens
C30_StatusUnderLock ==
    result.kind = "status" =>
        \A c \in Conns :
            ~(pc[c] = "acqDecrement" /\ call[c].tokens > 0
                /\ result.status.ActiveLeases = Cardinality(DOMAIN activeLeases)
                /\ result.status.AvailableTokens = availableTokens)

C21_CloseKeepsLeases ==
    [][/\ closed' # closed => poolVars' = poolVars
       /\ \A id \in DOMAIN activeLeases :
             id \notin DOMAIN activeLeases' =>
                \/ \E c \in Conns : pc[c] = "relWaitLock" /\ call[c].leaseId = id
                \/ now >= activeLeases[id].ExpiresAt
      ]_vars
C21_Witness ==
    \E c \in closed :
        /\ sent[c] = 1 /\ pc[c] = "idle"
        /\ \A d \in Conns \ {c} : received[d] = 0
        /\ \E id \in DOMAIN activeLeases :
              activeLeases[id].Tokens > 0 /\ now < activeLeases[id].ExpiresAt

\* C27: the governor exits for idleness only in background mode and only when
\* no lease was active at any moment of the preceding 30 minutes
C27_IdleExitAfterIdleWindow ==
    (idle # NoIdle /\ idle.pc = "idleExit") =>
        /\ idle.mode = "background"
        /\ idle.lastLeased = NullInt \/ idle.clock - idle.lastLeased > IdleTimeout

\* C31: whenever the pool lock is free, total_tokens and throttle_level are
\* the ones the budget computation yields for the stored memory snapshot
C31_BudgetOfStoredSnapshot ==
    lockHolder = LockFree =>
        /\ totalTokens = CalculateTokenBudget(lastMemoryStatus).TotalTokens
        /\ throttleLevel = CalculateTokenBudget(lastMemoryStatus).ThrottleLevel

\* C32: a shim calls TryReleaseAsync on its connection, which writes the
\* release request, only when its acquire was granted, and only after the
\* child has run once
C32_ReleaseOnlyAfterGrant ==
    \A s \in DOMAIN shim :
        shim[s].pc = "release" =>
            /\ shim[s].connected
            /\ shim[s].runs = 1
            /\ shim[s].leaseId = "lease"

\* C33: a shim that cannot locate the real tool exits with a nonzero code
\* without connecting, without entering the auto-start and without a lease,
\* and its invocation changes nothing of the governor
C33_ToolNotFoundTouchesNothing ==
    /\ [](\A s \in DOMAIN shim :
             ~shim[s].located =>
                 /\ shim[s] = [NoShim EXCEPT !.pc = "exit", !.exit = ToolNotFound]
                 /\ ToolNotFound # 0
                 /\ startMutex.owner # s)
    /\ [][\A s \in (DOMAIN shim') \ (DOMAIN shim) :
             ~shim'[s].located =>
                 /\ gov' = gov /\ instanceMutex' = instanceMutex
                 /\ startMutex' = startMutex
                 /\ serviceVars' = serviceVars
         ]_vars
C33_Witness ==
    \E s, t \in DOMAIN shim :
        /\ ~shim[s].located /\ shim[s].exit = ToolNotFound
        /\ t < s /\ shim[t].leaseId = "lease" /\ shim[t].pc = "run"
        /\ Serving # {}

\* C34: a completed sweep at time t leaves no lease with expires_at <= t in the
\* table, and every lease it removed had expires_at <= t
C34_SweepRemovesExactlyExpired ==
    [][MonitorTick =>
          /\ \A id \in DOMAIN activeLeases' : activeLeases'[id].ExpiresAt > now
          /\ \A id \in (DOMAIN activeLeases) \ (DOMAIN activeLeases') :
                activeLeases[id].ExpiresAt <= now]_vars

\* a sweep has reclaimed an expired lease and kept a younger one
C34_Witness ==
    /\ expiredLeaseCount > 0
    /\ \E id \in DOMAIN activeLeases :
          /\ activeLeases[id].AcquiredAt < now
          /\ activeLeases[id].ExpiresAt > now

\* C35: expired_lease_count starts at 0, never decreases, grows in a sweep by
\* exactly the number of leases the sweep removed, and is changed by no other
\* operation
C35_ExpiredCountCountsSweptLeases ==
    /\ expiredLeaseCount = 0
    /\ [][/\ expiredLeaseCount' >= expiredLeaseCount
          /\ MonitorTick =>
                expiredLeaseCount' = expiredLeaseCount
                    + Cardinality((DOMAIN activeLeases) \ (DOMAIN activeLeases'))
          /\ ~MonitorTick => expiredLeaseCount' = expiredLeaseCount]_vars

\* a sweep has reclaimed a lease, and a release was handled afterwards
C35_Witness ==
    /\ expiredLeaseCount = 1
    /\ result.kind = "release"

\* the lease stored under id before the step is still the stored lease after it
SameLease(id) ==
    /\ id \in DOMAIN activeLeases'
    /\ activeLeases'[id].AcquiredAt = activeLeases[id].AcquiredAt

\* C36: the long-running warning of a lease is written, and warning_logged
\* set, only by a sweep at which the lease is at least ten minutes old, not
\* yet expired and not yet warned about; warning_logged then stays true, so a
\* lease is warned about at most once
C36_WarningAtMostOnce ==
    [][\A id \in DOMAIN activeLeases :
          /\ (MonitorTick /\ id \in WarningIds(activeLeases, now)) =>
                /\ ~activeLeases[id].WarningLogged
                /\ SameLease(id) /\ activeLeases'[id].WarningLogged
          /\ (SameLease(id) /\ activeLeases'[id].WarningLogged
                  /\ ~activeLeases[id].WarningLogged) =>
                /\ MonitorTick
                /\ now >= activeLeases[id].AcquiredAt + LeaseWarningThreshold
                /\ now < activeLeases[id].ExpiresAt
          /\ (SameLease(id) /\ activeLeases[id].WarningLogged) =>
                activeLeases'[id].WarningLogged]_vars

\* a lease that was warned about is held next to a younger one that was not
C36_Witness ==
    \E id, other \in DOMAIN activeLeases :
        /\ activeLeases[id].WarningLogged
        /\ ~activeLeases[other].WarningLogged
        /\ activeLeases[other].AcquiredAt > activeLeases[id].AcquiredAt

\* connection c sleeps in the retry delay of its acquire request, no other
\* acquire request is being handled, at least one token is available, the
\* throttle is not HardStop and the deadline of c has not passed
WaiterCanBeServed(c) ==
    /\ pc[c] = "acqDelay"
    /\ \A d \in Conns \ {c} : call[d].op # "acquire"
    /\ availableTokens >= 1
    /\ ~IsHardStop(throttleLevel)
    /\ now < call[c].deadline

\* C37: a try_acquire that sleeps between two evaluations does not hold the
\* pool lock; and if it is the only waiter when a token is available, the
\* throttle is not HardStop and its deadline has not passed, it is eventually
\* granted
C37_WaiterEventuallyGranted ==
    /\ [](\A c \in Conns : pc[c] = "acqDelay" => lockHolder # c)
    /\ \A c \in Conns :
          WaiterCanBeServed(c) ~>
              (result.conn = c /\ result.kind = "acquire" /\ result.Success)

\* the largest total_tokens any snapshot of this host yields: no value the
\* budget has had since pool start is above it
LargestBudget ==
    CHOOSE n \in {CalculateTokenBudget(s).TotalTokens : s \in hostMemory} :
        \A s \in hostMemory : CalculateTokenBudget(s).TotalTokens <= n

\* C38: the tokens held by all active leases together never exceed the
\* largest total_tokens the budget has had since pool start
C38_LeasedWithinLargestBudget == LeasedTokens <= LargestBudget

\* C39: no lease is created for an acquire request whose client has gone
\* away: the step that inserts a lease with tokens for the request of
\* connection c finds c open
C39_NoLeaseForClosedConnection ==
    [][\A c \in Conns :
          (pc[c] = "acqWaitLock" /\ pc'[c] = "acqDecrement" /\ call'[c].tokens > 0)
              => c \notin closed]_vars

\* the wrapper has ended through TryReleaseAsync: with a connection and a
\* lease id, Main gets from the end of the real tool to its return only
\* through the release
Released(s) ==
    /\ shim[s].pc = "exit" /\ shim[s].runs = 1
    /\ shim[s].connected /\ shim[s].leaseId # NullString
    /\ shim[s].exit = shim[s].childExit

\* C40: a shim that was granted a lease and has ended while the governor is
\* reachable has sent the release of that lease
C40_LeaseReleasedBeforeExit ==
    \A s \in DOMAIN shim :
        (shim[s].pc = "exit" /\ shim[s].leaseId = "lease" /\ IsRunning)
            => Released(s)

====
